---- MODULE Spec2Model ----
(***************************************************************************)
(* The authoritative game server of Snake-multiplayer                      *)
(* (src/unnamed/part_000, lines 100-555): room registry, connection        *)
(* handlers, the fixed-rate game loop with tickRoom and handleDeath.       *)
(*                                                                         *)
(* Numbers.  Coordinates are world units on the integer grid (a float      *)
(* result is rounded to the nearest integer).  Angles are eighths of a     *)
(* full turn (TURN = 8 is 2*PI).  Time is milliseconds.  Speeds are tenths *)
(* of a world unit per second (BASE_SPEED 300 is 3000, SPEED_INC 0.8 is 8).*)
(* Math.random() is a stream rs of draws in thousandths (500 is 0.5); a    *)
(* handler receives one stream and consumes it, cyclically, in the order   *)
(* of the code's calls.                                                    *)
(* The arena is shrunk and the serpents are short (the definitions under   *)
(* "bounds of the model"); every other constant has the source's value.    *)
(***************************************************************************)
EXTENDS Integers, Sequences, FiniteSets, TLC

\* ---- bounds of the model -------------------------------------------------
MaxPeriods == 1        \* Spec: the clock runs for this many TICK_MS periods
ArenaPeriods == 2      \* SpecArena: the same
StallPeriods == 4      \* SpecStall: the same
MaxSnapshots == 2      \* SpecClient: the snapshots the client applies
MaxApplied == 24       \* SpecConverge: the applications of one snapshot that are counted
MaxRequests == 3       \* join_room and respawn messages the server handles
\* The arena is shrunk and the serpents are short, so that a border, another
\* serpent and the food are within a few ticks of a fresh serpent.
WORLD_SIZE == 90       \* source: 3000
SPAWN_MARGIN == 30     \* source: 200, createSnake keeps heads this far inside
FOOD_MARGIN == 20      \* source: 50, uniform food keeps this far inside
FOOD_COUNT == 2        \* source: 150
INIT_LENGTH == 2       \* source: 10
SEGMENT_SPACING_IDX == 2   \* source: 6
TRAIL_SLACK == 1       \* source: 20
INIT_HISTORY == 12     \* source: 200
EASY_BOTS == 2         \* source: 4 (EASY), 6 (MEDIUM): the bots of a single-player game
HARD_BOTS == 3         \* source: 10 (HARD)
MaxFrames == 2         \* SpecApp: the client runs this many animation frames
MaxGames == 2          \* SpecApp: and starts this many games

\* ---- program constants ---------------------------------------------------
DROP_MARGIN == 10
DROP_SCATTER == 80
RECORD_DIST == 4
BASE_SPEED == 3000
SPEED_INC == 8
TURN_SPEED == 55
TICK_MS == 50
DT_MAX_MS == 100
KILL_RADIUS == 18
HEAD_RADIUS == 20
SUPER_SIZE == 12
SUPER_VALUE == 30
NORMAL_VALUE == 10
NORMAL_SIZE_MIN == 4
NORMAL_SIZE_SPAN == 4
TURN == 8

\* the client (src/src/App.tsx)
CLIENT_WORLD_SIZE == 3000
CLIENT_LENGTH == 10
CLIENT_SPEED == 200
SNAP_DIST == 250
SMOOTH_DIST == 10
LERP_PCT == 15
SUBUNIT == 20
BOT_CORNER == 100
BOT_RESPAWN_DELAY == 5000
Sockets == {"s1", "s2"}
\* Room codes a client may send; "" is a string that JavaScript treats as false.
RoomCodes == {"", "A", "B"}
Null == "<null>"
Undefined == "<undefined>"

FOOD_COLORS == <<"#facc15", "#06b6d4", "#f43f5e", "#3b82f6", "#a855f7", "#4ade80">>
SNAKE_COLORS ==
  << [head |-> "#4ade80", body |-> "#22c55e"], [head |-> "#06b6d4", body |-> "#0891b2"],
     [head |-> "#f43f5e", body |-> "#e11d48"], [head |-> "#a855f7", body |-> "#9333ea"],
     [head |-> "#facc15", body |-> "#eab308"], [head |-> "#ff8a00", body |-> "#ea580c"] >>
\* What the clients send: a display name per connection, and a theme or none.
ClientName(s) == IF s = "s1" THEN "P1" ELSE IF s = "s2" THEN "P2" ELSE "P3"
\* An optional value is <<>> (undefined) or <<v>>.
JoinTheme(s) == IF s = "s1" THEN <<SNAKE_COLORS[1]>> ELSE <<>>

VARIABLES
  rooms,        \* the registry: room code -> RoomState, for the codes present
  roomKeys,     \* the registry's keys in insertion order (for .. in rooms)
  conn,         \* per socket: "new" (not yet connected), "open", "closed"
  currentRoom,  \* per connection closure: the currentRoom variable
  joined,       \* per socket: the socket.io rooms it is in (socket.join)
  emitted,      \* the messages emitted by the last handler, in order
  eatLog,       \* bookkeeping: the food consumptions of the last handler
  tickLog,      \* bookkeeping: what the last handler did to the serpents (w.log)
  requests,     \* bookkeeping: the join_room and respawn messages handled
  now,          \* Date.now(), in ms
  lastLoop,     \* the time of the last run of the setInterval callback
  game,         \* one client (App.tsx): its game.current
  received,     \* bookkeeping: the room_state snapshots that client applied
  relay,        \* the relay server (src/server.ts): rooms, and per socket conn,
                \* currentRoom and joined; out: the messages of its last handler
  ui            \* the client's React state (gameState, isMultiplayer, score) and
                \* time (performance.now()); bookkeeping of its last handler:
                \* last (its name), deaths (the calls of handleSnakeDeath),
                \* overs (the calls of gameOver), ate, sent; frames counts
                \* the animation frames, games the games started
vars == <<rooms, roomKeys, conn, currentRoom, joined, emitted, eatLog, tickLog, requests, now,
          lastLoop, game, received, relay, ui>>

\* ---- arithmetic ----------------------------------------------------------
Min(a, b) == IF a < b THEN a ELSE b
Max(a, b) == IF a > b THEN a ELSE b
\* n / d rounded to the nearest integer, halves away from zero (d > 0)
RoundDiv(n, d) == IF n >= 0 THEN (2 * n + d) \div (2 * d) ELSE -((2 * (-n) + d) \div (2 * d))
\* cos and sin of a multiple of 45 degrees, in thousandths
COS1000 == <<1000, 707, 0, -707, -1000, -707, 0, 707>>
Cos(a) == COS1000[(a % TURN) + 1]
Sin(a) == COS1000[((a + (TURN - (TURN \div 4))) % TURN) + 1]
\* The value NaN of a number: what arithmetic on a steering value that is not a
\* finite number (a string, a missing field, Infinity under sin and cos)
\* yields.  Arithmetic with NaN is NaN, every comparison with NaN is false.
NaN == -1000000
IsNaN(v) == v = NaN
\* Math.hypot(ax - bx, ay - by) < r, for r >= 0
HypotLess(a, b, r) ==
  /\ ~IsNaN(a.x) /\ ~IsNaN(a.y) /\ ~IsNaN(b.x) /\ ~IsNaN(b.y)
  /\ (a.x - b.x) * (a.x - b.x) + (a.y - b.y) * (a.y - b.y) < r * r
\* Math.hypot(ax - bx, ay - by) >= r, for r >= 0
HypotAtLeast(a, b, r) ==
  /\ ~IsNaN(a.x) /\ ~IsNaN(a.y) /\ ~IsNaN(b.x) /\ ~IsNaN(b.y)
  /\ (a.x - b.x) * (a.x - b.x) + (a.y - b.y) * (a.y - b.y) >= r * r
\* JavaScript truthiness of a room code or of the null currentRoom
Truthy(c) == c # Null /\ c # Undefined /\ c # ""

\* ---- the threaded state of one handler -----------------------------------
\* w.rooms, w.keys: the registry; w.out: the messages emitted so far;
\* w.joined, w.open: socket.io's rooms and connected sockets; w.rs, w.k: the
\* stream of Math.random() draws and the number of draws consumed.
\* Bookkeeping of the model (no program state): w.tags[c] runs parallel to
\* room c's food list and names each item, w.fresh is the next unused name,
\* w.eaten lists the consumptions [room, by, tag] in order, w.log lists what
\* the handler did to the serpents, in order: [ev, room, pid] with ev "move"
\* (the head was advanced), "eat" (a food item was removed), "kill"; and
\* [ev, room, elapsed] with ev "tick": a tick of the room began, elapsed ms
\* after the room's lastTick.
Draw(w) == w.rs[(w.k % Len(w.rs)) + 1]
Next1(w) == [w EXCEPT !.k = @ + 1]
Logged(w, ev, roomCode, pid) ==
  [w EXCEPT !.log = Append(@, [ev |-> ev, room |-> roomCode, pid |-> pid])]
\* Math.random() * n, on the integer grid
Scaled(d, n) == (d * n) \div 1000

\* io.to(roomCode).emit(ev, data): delivered to the connected sockets that are
\* in the socket.io room roomCode at that moment.
Members(w, roomCode) == {s \in w.open : roomCode \in w.joined[s]}
PlayersOf(w, roomCode) ==
  IF roomCode \in DOMAIN w.rooms THEN DOMAIN w.rooms[roomCode].players ELSE {}
EmitToRoom(w, roomCode, ev, data) ==
  [w EXCEPT !.out = Append(@, [ev |-> ev, room |-> roomCode, to |-> Members(w, roomCode),
                               players |-> PlayersOf(w, roomCode), data |-> data])]
\* socket.emit(ev, data) on one socket
EmitToSocket(w, s, ev, data) ==
  [w EXCEPT !.out = Append(@, [ev |-> ev, room |-> Null, to |-> {s},
                               players |-> {}, data |-> data])]

\* broadcastSystemMessage: the id draws Math.random() once
broadcastSystemMessage(w, roomCode, text) ==
  Next1(EmitToRoom(w, roomCode, "chat_message",
                   [sender |-> "SYSTEM", text |-> text, isSystem |-> TRUE]))

\* ---- createSnake, spawnFood, initRoomFoods -------------------------------
Point(x, y) == [x |-> x, y |-> y]

\* createSnake(theme): three draws (x, y, angle); result [w, snake]
createSnake(w, theme) ==
  LET x == Scaled(Draw(w), WORLD_SIZE - 2 * SPAWN_MARGIN) + SPAWN_MARGIN
      w1 == Next1(w)
      y == Scaled(Draw(w1), WORLD_SIZE - 2 * SPAWN_MARGIN) + SPAWN_MARGIN
      w2 == Next1(w1)
      a == Scaled(Draw(w2), TURN)
  IN [w |-> Next1(w2),
      snake |-> [head |-> Point(x, y), angle |-> a, targetAngle |-> 0,
                 history |-> [i \in 1..INIT_HISTORY |-> Point(x - (i - 1) * RECORD_DIST, y)],
                 length |-> INIT_LENGTH, speed |-> BASE_SPEED, dead |-> FALSE,
                 theme |-> theme, isBoosting |-> FALSE, score |-> 0]]

\* No clamp at all
ClampNone(lo, hi, v) == v
Clamp(lo, hi, v) == Max(lo, Min(hi, v))

\* One iteration of spawnFood's loop on room roomCode's food list.
\* near = <<>>: uniform position (draws x, y, colour, size); near = <<p>>: a
\* scatter around p (draws angle, dist) clamped into the world.  The new item
\* gets a fresh tag in w.tags (bookkeeping of the model, not program state).
spawnOne(w, roomCode, near, isSuper) ==
  LET d1 == Draw(w)
      w1 == Next1(w)
      d2 == Draw(w1)
      w2 == Next1(w1)
      fx == IF near # <<>>
            THEN Clamp(DROP_MARGIN, WORLD_SIZE - DROP_MARGIN,
                       near[1].x + RoundDiv(Cos(Scaled(d1, TURN)) * Scaled(d2, DROP_SCATTER), 1000))
            ELSE Scaled(d1, WORLD_SIZE - 2 * FOOD_MARGIN) + FOOD_MARGIN
      fy == IF near # <<>>
            THEN Clamp(DROP_MARGIN, WORLD_SIZE - DROP_MARGIN,
                       near[1].y + RoundDiv(Sin(Scaled(d1, TURN)) * Scaled(d2, DROP_SCATTER), 1000))
            ELSE Scaled(d2, WORLD_SIZE - 2 * FOOD_MARGIN) + FOOD_MARGIN
      color == IF isSuper THEN "#facc15" ELSE FOOD_COLORS[Scaled(Draw(w2), Len(FOOD_COLORS)) + 1]
      w3 == IF isSuper THEN w2 ELSE Next1(w2)
      size == IF isSuper THEN SUPER_SIZE ELSE Scaled(Draw(w3), NORMAL_SIZE_SPAN) + NORMAL_SIZE_MIN
      w4 == IF isSuper THEN w3 ELSE Next1(w3)
      f == [x |-> fx, y |-> fy, color |-> color, size |-> size,
            value |-> IF isSuper THEN SUPER_VALUE ELSE NORMAL_VALUE, isSuper |-> isSuper]
  IN [w4 EXCEPT !.rooms[roomCode].foods = Append(@, f),
                !.tags[roomCode] = Append(@, w.fresh), !.fresh = @ + 1]

RECURSIVE spawnFood(_, _, _, _, _)
spawnFood(w, roomCode, count, near, isSuper) ==
  IF count <= 0 THEN w
  ELSE spawnFood(spawnOne(w, roomCode, near, isSuper), roomCode, count - 1, near, isSuper)

\* An initRoomFoods on one food list that all rooms share
initRoomFoodsShared(w, roomCode) ==
  spawnFood([w EXCEPT !.rooms = [d \in DOMAIN @ |-> [@[d] EXCEPT !.foods = <<>>]],
                      !.tags = [d \in DOMAIN @ |-> <<>>]],
            roomCode, FOOD_COUNT, <<>>, FALSE)
initRoomFoods(w, roomCode) ==
  spawnFood([w EXCEPT !.rooms[roomCode].foods = <<>>, !.tags[roomCode] = <<>>],
            roomCode, FOOD_COUNT, <<>>, FALSE)

\* ---- the drop along the trail and the player_death payload ----------------
\* The sampled trail positions: history[i * SEGMENT_SPACING_IDX] for i < length
\* that exist (0-based indices of the source).
SampledIdx(snake) ==
  {i \in 0..(snake.length - 1) : i * SEGMENT_SPACING_IDX < Len(snake.history)}

\* A drop that takes only whole strides of the trail
RECURSIVE dropTrailWholeStrides(_, _, _, _)
dropTrailWholeStrides(w, roomCode, snake, i) ==
  IF i >= snake.length THEN w
  ELSE IF (i + 1) * SEGMENT_SPACING_IDX <= Len(snake.history)
       THEN dropTrailWholeStrides(
              spawnOne(w, roomCode, <<snake.history[i * SEGMENT_SPACING_IDX + 1]>>, TRUE),
              roomCode, snake, i + 1)
       ELSE dropTrailWholeStrides(w, roomCode, snake, i + 1)

RECURSIVE dropTrail(_, _, _, _)
dropTrail(w, roomCode, snake, i) ==
  IF i >= snake.length THEN w
  ELSE IF i * SEGMENT_SPACING_IDX < Len(snake.history)
       THEN dropTrail(spawnOne(w, roomCode, <<snake.history[i * SEGMENT_SPACING_IDX + 1]>>, TRUE),
                      roomCode, snake, i + 1)
       ELSE dropTrail(w, roomCode, snake, i + 1)

\* history.filter((_, i) => i % SEGMENT_SPACING_IDX === 0).slice(0, length)
BodyPositions(snake) ==
  LET n == Min(snake.length,
               (Len(snake.history) + SEGMENT_SPACING_IDX - 1) \div SEGMENT_SPACING_IDX)
  IN [i \in 1..n |-> snake.history[(i - 1) * SEGMENT_SPACING_IDX + 1]]

DeathPayload(playerId, pr) ==
  [playerId |-> playerId, playerName |-> pr.playerName,
   x |-> pr.snake.head.x, y |-> pr.snake.head.y,
   color |-> pr.snake.theme.head, bodyColor |-> pr.snake.theme.body,
   segmentCount |-> pr.snake.length, bodyPositions |-> BodyPositions(pr.snake)]

\* ---- handleDeath ----------------------------------------------------------
\* A handleDeath that does not look at snake.dead
handleDeathAgain(w, roomCode, playerId, killedBy) ==
  IF roomCode \notin DOMAIN w.rooms THEN w
  ELSE IF playerId \notin DOMAIN w.rooms[roomCode].players THEN w
  ELSE
    LET w1 == Logged([w EXCEPT !.rooms[roomCode].players[playerId].snake.dead = TRUE],
                     "kill", roomCode, playerId)
        pr == w1.rooms[roomCode].players[playerId]
        w2 == dropTrail(w1, roomCode, pr.snake, 0)
        w3 == EmitToRoom(w2, roomCode, "player_death", DeathPayload(playerId, pr))
        w4 == broadcastSystemMessage(w3, roomCode, <<pr.playerName, "was terminated by", killedBy>>)
    IN IF playerId \in w4.open
       THEN EmitToSocket(w4, playerId, "you_died", [score |-> pr.snake.score, killedBy |-> killedBy])
       ELSE w4

handleDeath(w, roomCode, playerId, killedBy) ==
  IF roomCode \notin DOMAIN w.rooms THEN w
  ELSE IF playerId \notin DOMAIN w.rooms[roomCode].players THEN w
  ELSE IF w.rooms[roomCode].players[playerId].snake.dead THEN w
  ELSE
    LET w1 == Logged([w EXCEPT !.rooms[roomCode].players[playerId].snake.dead = TRUE],
                     "kill", roomCode, playerId)
        pr == w1.rooms[roomCode].players[playerId]
        w2 == dropTrail(w1, roomCode, pr.snake, 0)
        w3 == EmitToRoom(w2, roomCode, "player_death", DeathPayload(playerId, pr))
        w4 == broadcastSystemMessage(w3, roomCode, <<pr.playerName, "was terminated by", killedBy>>)
    IN IF playerId \in w4.open
       THEN EmitToSocket(w4, playerId, "you_died", [score |-> pr.snake.score, killedBy |-> killedBy])
       ELSE w4

\* ---- leaveRoom ------------------------------------------------------------
RemoveKey(f, k) == [c \in (DOMAIN f) \ {k} |-> f[c]]
RemoveFromSeq(q, v) == SelectSeq(q, LAMBDA e : e # v)

\* A leaveRoom without the clean-up of empty rooms
leaveRoomKeepsEmpty(w, roomCode, socketId) ==
  IF roomCode \notin DOMAIN w.rooms THEN w
  ELSE
    LET room == w.rooms[roomCode]
    IN IF socketId \in DOMAIN room.players
       THEN LET pr == room.players[socketId]
                wa == IF ~pr.snake.dead
                      THEN EmitToRoom(dropTrail(w, roomCode, pr.snake, 0), roomCode,
                                      "player_death", DeathPayload(socketId, pr))
                      ELSE w
                wb == broadcastSystemMessage(wa, roomCode, <<pr.playerName, "disconnected">>)
            IN [wb EXCEPT !.rooms[roomCode].players = RemoveKey(@, socketId),
                          !.rooms[roomCode].pids = RemoveFromSeq(@, socketId)]
       ELSE w
\* A leaveRoom that destroys the room whoever else plays in it
leaveRoomDestroys(w, roomCode, socketId) ==
  IF roomCode \notin DOMAIN w.rooms THEN w
  ELSE [w EXCEPT !.rooms = RemoveKey(@, roomCode), !.keys = RemoveFromSeq(@, roomCode),
                 !.tags[roomCode] = <<>>]

leaveRoom(w, roomCode, socketId) ==
  IF roomCode \notin DOMAIN w.rooms THEN w
  ELSE
    LET room == w.rooms[roomCode]
        w1 == IF socketId \in DOMAIN room.players
              THEN LET pr == room.players[socketId]
                       wa == IF ~pr.snake.dead
                             THEN EmitToRoom(dropTrail(w, roomCode, pr.snake, 0), roomCode,
                                             "player_death", DeathPayload(socketId, pr))
                             ELSE w
                       wb == broadcastSystemMessage(wa, roomCode, <<pr.playerName, "disconnected">>)
                   IN [wb EXCEPT !.rooms[roomCode].players = RemoveKey(@, socketId),
                                 !.rooms[roomCode].pids = RemoveFromSeq(@, socketId)]
              ELSE w
    IN IF DOMAIN w1.rooms[roomCode].players = {}
       THEN [w1 EXCEPT !.rooms = RemoveKey(@, roomCode), !.keys = RemoveFromSeq(@, roomCode),
                       !.tags[roomCode] = <<>>]
       ELSE w1

\* ---- the handlers of one connection ---------------------------------------
\* The state a handler starts from: the registry rs_/keys_, socket.io's rooms
\* joined_ and connected sockets open_, the stream rs of Math.random() draws
StartOf(rooms_, keys_, joined_, open_, rs) ==
  LET lens == {Len(rooms_[c].foods) : c \in DOMAIN rooms_} \cup {0}
      maxLen == CHOOSE m \in lens : \A n \in lens : n <= m
  IN [rooms |-> rooms_, keys |-> keys_, out |-> <<>>, joined |-> joined_, open |-> open_,
      rs |-> rs, k |-> 0,
      tags |-> [c \in RoomCodes |-> IF c \in DOMAIN rooms_
                                    THEN [i \in 1..Len(rooms_[c].foods) |-> i] ELSE <<>>],
      fresh |-> maxLen + 1, eaten |-> <<>>, log |-> <<>>]
Start(rs) == StartOf(rooms, roomKeys, joined, {s \in Sockets : conn[s] = "open"}, rs)
\* The state a handler leaves
Finish(w) ==
  /\ rooms' = w.rooms
  /\ roomKeys' = w.keys
  /\ joined' = w.joined
  /\ emitted' = w.out
  /\ eatLog' = w.eaten
  /\ tickLog' = w.log
  /\ UNCHANGED <<game, received, relay, ui>>

\* io.on("connection"): a new closure with currentRoom = null
connection(s) ==
  /\ conn[s] = "new"
  /\ conn' = [conn EXCEPT ![s] = "open"]
  /\ currentRoom' = [currentRoom EXCEPT ![s] = Null]
  /\ emitted' = <<>>
  /\ eatLog' = <<>>
  /\ tickLog' = <<>>
  /\ UNCHANGED <<rooms, roomKeys, joined, requests, now, lastLoop, game, received,
                 relay, ui>>

joinRoomBody(w0, s, cur, roomCode, playerName, theme, t) ==
  LET w1 == IF Truthy(cur) THEN leaveRoom(w0, cur, s) ELSE w0
      w2 == [w1 EXCEPT !.joined[s] = @ \cup {roomCode}]
      w3 == IF roomCode \notin DOMAIN w2.rooms
            THEN initRoomFoods([w2 EXCEPT
                     !.rooms = @ @@ (roomCode :> [players |-> <<>>, pids |-> <<>>,
                                                  foods |-> <<>>, lastTick |-> t]),
                     !.keys = Append(@, roomCode)], roomCode)
            ELSE w2
      snakeTheme == IF theme # <<>> THEN theme[1]
                    ELSE SNAKE_COLORS[Scaled(Draw(w3), Len(SNAKE_COLORS)) + 1]
      w4 == IF theme # <<>> THEN w3 ELSE Next1(w3)
      cs == createSnake(w4, snakeTheme)
      pr == [snake |-> cs.snake, playerName |-> IF playerName # "" THEN playerName ELSE "Anon",
             socketId |-> s]
      had == s \in DOMAIN cs.w.rooms[roomCode].players
      w5 == [cs.w EXCEPT
               !.rooms[roomCode].players = IF had THEN [@ EXCEPT ![s] = pr] ELSE @ @@ (s :> pr),
               !.rooms[roomCode].pids = IF had THEN @ ELSE Append(@, s)]
  IN broadcastSystemMessage(w5, roomCode, <<playerName, "joined the arena">>)

join_room(s, roomCode, theme, rs) ==
  /\ conn[s] = "open"
  /\ requests < MaxRequests
  /\ requests' = requests + 1
  /\ Finish(joinRoomBody(Start(rs), s, currentRoom[s], roomCode, ClientName(s), theme, now))
  /\ currentRoom' = [currentRoom EXCEPT ![s] = roomCode]
  /\ UNCHANGED <<conn, now, lastLoop>>

\* A handler that does not look at the dead flag
playerInputAnyway(w, s, cur, targetAngle, isBoosting) ==
  IF ~Truthy(cur) \/ cur \notin DOMAIN w.rooms THEN w
  ELSE IF s \notin DOMAIN w.rooms[cur].players THEN w
  ELSE [w EXCEPT !.rooms[cur].players[s].snake.targetAngle = targetAngle,
                 !.rooms[cur].players[s].snake.isBoosting = isBoosting]
playerInputBody(w, s, cur, targetAngle, isBoosting) ==
  IF ~Truthy(cur) \/ cur \notin DOMAIN w.rooms THEN w
  ELSE IF s \notin DOMAIN w.rooms[cur].players THEN w
  ELSE IF w.rooms[cur].players[s].snake.dead THEN w
  ELSE [w EXCEPT !.rooms[cur].players[s].snake.targetAngle = targetAngle,
                 !.rooms[cur].players[s].snake.isBoosting = isBoosting]

player_input(s, targetAngle, isBoosting) ==
  /\ conn[s] = "open"
  /\ Finish(playerInputBody(Start(<<0>>), s, currentRoom[s], targetAngle, isBoosting))
  /\ UNCHANGED <<conn, currentRoom, requests, now, lastLoop>>

respawnBody(w, s, cur, theme) ==
  IF ~Truthy(cur) \/ cur \notin DOMAIN w.rooms THEN w
  ELSE IF s \notin DOMAIN w.rooms[cur].players THEN w
  ELSE LET pr == w.rooms[cur].players[s]
           cs == createSnake(w, IF theme # <<>> THEN theme[1] ELSE pr.snake.theme)
       IN broadcastSystemMessage([cs.w EXCEPT !.rooms[cur].players[s].snake = cs.snake],
                                 cur, <<pr.playerName, "respawned">>)

respawn(s, theme, rs) ==
  /\ conn[s] = "open"
  /\ requests < MaxRequests
  /\ requests' = requests + 1
  /\ Finish(respawnBody(Start(rs), s, currentRoom[s], theme))
  /\ UNCHANGED <<conn, currentRoom, now, lastLoop>>

\* A handler that relays the text of any connection
chatAnyway(w, s, cur, text) ==
  Next1(EmitToRoom(w, cur, "chat_message",
                   [sender |-> ClientName(s), text |-> text, isSystem |-> FALSE]))
chatBody(w, s, cur, text) ==
  IF ~Truthy(cur) \/ cur \notin DOMAIN w.rooms THEN w
  ELSE IF s \notin DOMAIN w.rooms[cur].players THEN w
  ELSE Next1(EmitToRoom(w, cur, "chat_message",
                        [sender |-> w.rooms[cur].players[s].playerName, text |-> text,
                         isSystem |-> FALSE]))

chat_message(s, text) ==
  /\ conn[s] = "open"
  /\ Finish(chatBody(Start(<<0>>), s, currentRoom[s], text))
  /\ UNCHANGED <<conn, currentRoom, requests, now, lastLoop>>

\* socket.on("disconnect"): socket.io has already taken the socket out of its
\* rooms and of io.sockets.sockets when the handler runs.
disconnectBody(w, s, cur) ==
  LET w0 == [w EXCEPT !.open = @ \ {s}, !.joined[s] = {}]
  IN IF Truthy(cur) THEN leaveRoom(w0, cur, s) ELSE w0

disconnect(s) ==
  /\ conn[s] = "open"
  /\ conn' = [conn EXCEPT ![s] = "closed"]
  /\ Finish(disconnectBody(Start(<<0>>), s, currentRoom[s]))
  /\ UNCHANGED <<currentRoom, requests, now, lastLoop>>

\* ---- tickRoom -------------------------------------------------------------
\* atan2(sin(d), cos(d)): d wrapped into [-TURN/2, TURN/2]; at exactly half a
\* turn the floating-point sine keeps the sign of d.
\* A difference taken as it is, unwrapped
WrapNone(d) == d
WrapAngle(d) ==
  LET m == d % TURN
  IN IF 2 * m < TURN THEN m
     ELSE IF 2 * m > TURN THEN m - TURN
     ELSE IF d > 0 THEN m ELSE -m

\* Steering: angle += diff * TURN_SPEED * dt
Steer(snake, dt) ==
  IF IsNaN(snake.targetAngle) \/ IsNaN(snake.angle)
  THEN [snake EXCEPT !.angle = NaN]
  ELSE [snake EXCEPT !.angle = @ + RoundDiv(WrapAngle(snake.targetAngle - snake.angle)
                                              * TURN_SPEED * dt, 10000)]

\* Speed and movement: head += (cos, sin)(angle) * currentSpeed * dt
Advance(snake, dt) ==
  LET currentSpeed == IF snake.isBoosting THEN snake.speed * 2 ELSE snake.speed
  IN IF IsNaN(snake.angle)
     THEN [snake EXCEPT !.head.x = NaN, !.head.y = NaN]
     ELSE [snake EXCEPT
             !.head.x = @ + RoundDiv(Cos(snake.angle) * currentSpeed * dt, 10000000),
             !.head.y = @ + RoundDiv(Sin(snake.angle) * currentSpeed * dt, 10000000)]

\* A bounds test of the x axis alone
OutOfBoundsX(head) == head.x < 0 \/ head.x > WORLD_SIZE
OutOfBounds(head) ==
  \/ ~IsNaN(head.x) /\ (head.x < 0 \/ head.x > WORLD_SIZE)
  \/ ~IsNaN(head.y) /\ (head.y < 0 \/ head.y > WORLD_SIZE)

\* Record history: unshift the head once it is RECORD_DIST from history[0],
\* then cut the history to length * SEGMENT_SPACING_IDX + TRAIL_SLACK
RecordHistory(snake) ==
  IF HypotAtLeast(snake.head, snake.history[1], RECORD_DIST)
  THEN LET h == <<snake.head>> \o snake.history
           maxHistory == snake.length * SEGMENT_SPACING_IDX + TRAIL_SLACK
       IN [snake EXCEPT !.history = IF Len(h) > maxHistory THEN SubSeq(h, 1, maxHistory) ELSE h]
  ELSE snake

\* What one consumption does to the food list: swap-and-pop of index i (0-based)
\* A consumption that leaves the item in the list
SwapPopKeeps(q, i) == q
SwapPop(q, i) == SubSeq([q EXCEPT ![i + 1] = q[Len(q)]], 1, Len(q) - 1)

\* What one consumption does to the serpent
\* A growth that leaves the speed alone
GrowKeepsSpeed(snake, f) == [snake EXCEPT !.score = @ + f.value, !.length = @ + 1]
Grow(snake, f) ==
  [snake EXCEPT !.score = @ + f.value, !.length = @ + 1, !.speed = @ + SPEED_INC]

\* Food collision: for (i = foods.length - 1; i >= 0; i--)
RECURSIVE eatFoods(_, _, _, _)
eatFoods(w, roomCode, pid, i) ==
  IF i < 0 THEN w
  ELSE
    LET room == w.rooms[roomCode]
        f == room.foods[i + 1]
    IN IF HypotLess(room.players[pid].snake.head, f, HEAD_RADIUS + f.size)
       THEN LET w1 == [Logged(w, "eat", roomCode, pid) EXCEPT
                                !.rooms[roomCode].foods = SwapPop(@, i),
                                !.tags[roomCode] = SwapPop(@, i),
                                !.rooms[roomCode].players[pid].snake = Grow(@, f),
                                !.eaten = Append(@, [room |-> roomCode, by |-> pid,
                                                     tag |-> w.tags[roomCode][i + 1],
                                                     food |-> f])]
            IN eatFoods(spawnFood(w1, roomCode, 1, <<>>, FALSE), roomCode, pid, i - 1)
       ELSE eatFoods(w, roomCode, pid, i - 1)

\* A movement step whose bounds check is not followed by "continue"
moveOneNoContinue(w, roomCode, pid, dt) ==
  LET moved == Advance(Steer(w.rooms[roomCode].players[pid].snake, dt), dt)
      w1 == Logged([w EXCEPT !.rooms[roomCode].players[pid].snake = moved],
                   "move", roomCode, pid)
      w2 == IF OutOfBounds(moved.head)
            THEN handleDeath(w1, roomCode, pid, "World Border") ELSE w1
      w3 == [w2 EXCEPT !.rooms[roomCode].players[pid].snake = RecordHistory(@)]
  IN eatFoods(w3, roomCode, pid, Len(w3.rooms[roomCode].foods) - 1)

\* Movement & physics of one living serpent
moveOne(w, roomCode, pid, dt) ==
  LET moved == Advance(Steer(w.rooms[roomCode].players[pid].snake, dt), dt)
      w1 == Logged([w EXCEPT !.rooms[roomCode].players[pid].snake = moved],
                   "move", roomCode, pid)
  IN IF OutOfBounds(moved.head)
     THEN handleDeath(w1, roomCode, pid, "World Border")
     ELSE LET w2 == [w1 EXCEPT !.rooms[roomCode].players[pid].snake = RecordHistory(@)]
          IN eatFoods(w2, roomCode, pid, Len(w2.rooms[roomCode].foods) - 1)

\* A movement loop that does not skip the dead
RECURSIVE movePhaseAll(_, _, _, _, _, _)
movePhaseAll(w, roomCode, playerIds, n, dt, alive) ==
  IF n > Len(playerIds) THEN [w |-> w, alive |-> alive]
  ELSE movePhaseAll(moveOne(w, roomCode, playerIds[n], dt), roomCode, playerIds, n + 1, dt,
                    Append(alive, playerIds[n]))
\* for (const pid of playerIds): result [w, alive], alive being aliveSnakes
RECURSIVE movePhase(_, _, _, _, _, _)
movePhase(w, roomCode, playerIds, n, dt, alive) ==
  IF n > Len(playerIds) THEN [w |-> w, alive |-> alive]
  ELSE LET pid == playerIds[n]
       IN IF w.rooms[roomCode].players[pid].snake.dead
          THEN movePhase(w, roomCode, playerIds, n + 1, dt, alive)
          ELSE movePhase(moveOne(w, roomCode, pid, dt), roomCode, playerIds, n + 1, dt,
                         Append(alive, pid))

\* A test against every trail point of other
HitsAnyPoint(snake, other) ==
  \E i \in DOMAIN other.history : HypotLess(snake.head, other.history[i], KILL_RADIUS)
\* The head of snake is within the kill radius of a sampled trail point of other
Hits(snake, other) ==
  \E i \in SampledIdx(other) :
     HypotLess(snake.head, other.history[i * SEGMENT_SPACING_IDX + 1], KILL_RADIUS)

\* for (const {id: otherId, snake: other} of aliveSnakes), for one pid; the
\* break leaves the loop over the segments only
RECURSIVE collideWith(_, _, _, _, _)
collideWith(w, roomCode, pid, alive, m) ==
  IF m > Len(alive) THEN w
  ELSE LET otherId == alive[m]
           players == w.rooms[roomCode].players
       IN IF players[otherId].snake.dead \/ pid = otherId
          THEN collideWith(w, roomCode, pid, alive, m + 1)
          ELSE IF Hits(players[pid].snake, players[otherId].snake)
               THEN collideWith(handleDeath(w, roomCode, pid, players[otherId].playerName),
                                roomCode, pid, alive, m + 1)
               ELSE collideWith(w, roomCode, pid, alive, m + 1)

\* for (const {id: pid, snake} of aliveSnakes)
RECURSIVE collidePhase(_, _, _, _)
collidePhase(w, roomCode, alive, n) ==
  IF n > Len(alive) THEN w
  ELSE IF w.rooms[roomCode].players[alive[n]].snake.dead
       THEN collidePhase(w, roomCode, alive, n + 1)
       ELSE collidePhase(collideWith(w, roomCode, alive[n], alive, 1), roomCode, alive, n + 1)

\* A snapshot of the living serpents only
StatePayloadLiving(room) ==
  [players |-> [pid \in {q \in DOMAIN room.players : ~room.players[q].snake.dead} |->
                  [snake |-> room.players[pid].snake, playerName |-> room.players[pid].playerName]],
   foods |-> room.foods]
StatePayload(room) ==
  [players |-> [pid \in DOMAIN room.players |->
                  [snake |-> room.players[pid].snake, playerName |-> room.players[pid].playerName]],
   foods |-> room.foods]

\* A time step that is the whole elapsed time
TimeStepElapsed(t, lastTick) == t - lastTick
\* dt = Math.min((now - room.lastTick) / 1000, 0.1), in ms
TimeStep(t, lastTick) == Min(t - lastTick, DT_MAX_MS)

tickRoom(w, roomCode, t) ==
  IF roomCode \notin DOMAIN w.rooms THEN w
  ELSE
    LET dt == TimeStep(t, w.rooms[roomCode].lastTick)
        w1 == [w EXCEPT !.rooms[roomCode].lastTick = t,
                        !.log = Append(@, [ev |-> "tick", room |-> roomCode,
                                           elapsed |-> t - w.rooms[roomCode].lastTick])]
        playerIds == w1.rooms[roomCode].pids
    IN IF Len(playerIds) = 0 THEN w1
       ELSE LET mv == movePhase(w1, roomCode, playerIds, 1, dt, <<>>)
                w2 == collidePhase(mv.w, roomCode, mv.alive, 1)
            IN EmitToRoom(w2, roomCode, "room_state", StatePayload(w2.rooms[roomCode]))

\* setInterval(() => { for (const roomCode in rooms) tickRoom(roomCode, io) }, TICK_MS)
RECURSIVE tickAll(_, _, _, _)
tickAll(w, codes, n, t) ==
  IF n > Len(codes) THEN w
  ELSE tickAll(tickRoom(w, codes[n], t), codes, n + 1, t)

gameLoop(rs) ==
  /\ now - lastLoop >= TICK_MS
  /\ Finish(tickAll(Start(rs), roomKeys, 1, now))
  /\ lastLoop' = now
  /\ UNCHANGED <<conn, currentRoom, requests, now>>

\* The clock advances by one period
timePasses(periods) ==
  /\ now + TICK_MS <= periods * TICK_MS
  /\ now' = now + TICK_MS
  /\ emitted' = <<>>
  /\ eatLog' = <<>>
  /\ tickLog' = <<>>
  /\ UNCHANGED <<rooms, roomKeys, conn, currentRoom, joined, requests, lastLoop, game,
                 received, relay, ui>>

\* ---- the client's application of a snapshot (src/src/App.tsx) -------------
\* The client's positions are counted in 1/SUBUNIT of a world unit; its angles
\* in eighths of a turn, as the server's.
Me == "s1"                              \* socket.id of the client
\* DIFFICULTY_CONFIG: baseSpeed, turnSpeed and speedInc in tenths (as the
\* server's BASE_SPEED, TURN_SPEED, SPEED_INC); botCount is bounded (source: 4,
\* 6, 10)
DIFFICULTY_CONFIG ==
  [EASY   |-> [baseSpeed |-> 1500, turnSpeed |-> 35, speedInc |-> 1, botCount |-> EASY_BOTS],
   MEDIUM |-> [baseSpeed |-> 2200, turnSpeed |-> 45, speedInc |-> 2, botCount |-> EASY_BOTS],
   HARD   |-> [baseSpeed |-> 3000, turnSpeed |-> 55, speedInc |-> 8, botCount |-> HARD_BOTS]]
ClientPoint(x, y) == [x |-> x * SUBUNIT, y |-> y * SUBUNIT]
\* useRef({ player: {...}, foods: [], networkPlayers: {} })
NewGame ==
  [player |-> [head |-> ClientPoint(CLIENT_WORLD_SIZE \div 2, CLIENT_WORLD_SIZE \div 2),
               angle |-> 0, targetAngle |-> 0, history |-> <<>>, length |-> CLIENT_LENGTH,
               speed |-> CLIENT_SPEED, dead |-> FALSE, respawnTime |-> 0, isBot |-> FALSE,
               isBoosting |-> FALSE, score |-> 0, decisionTimer |-> 0],
   bots |-> <<>>, foods |-> <<>>, networkPlayers |-> <<>>, lastNetworkUpdate |-> 0,
   lastTime |-> 0,
   config |-> DIFFICULTY_CONFIG["MEDIUM"]]
\* useState: gameState "MENU", isMultiplayer false, score 0.  inRoom: the
\* socket has sent join_room (App.tsx:206); the client never leaves the room
\* or disconnects, so the server goes on sending to it.
NewUi ==
  [gameState |-> "MENU", isMultiplayer |-> FALSE, score |-> 0, time |-> 0,
   last |-> "none", deaths |-> <<>>, overs |-> 0, ate |-> <<>>, sent |-> <<>>, frames |-> 0,
   games |-> 0, inRoom |-> FALSE]
Abs(n) == IF n < 0 THEN -n ELSE n
\* Math.hypot(ax - bx, ay - by) > r, for r in world units
HypotMore(a, b, r) ==
  \/ Abs(a.x - b.x) > r * SUBUNIT
  \/ Abs(a.y - b.y) > r * SUBUNIT
  \/ (a.x - b.x) * (a.x - b.x) + (a.y - b.y) * (a.y - b.y) > (r * SUBUNIT) * (r * SUBUNIT)
\* the variants of the two corrections
SnapHeadOnly(player, serverPlayer) == [player EXCEPT !.head = serverPlayer.head]
LerpTurning(player, serverPlayer) ==
  [player EXCEPT !.head.x = @ + RoundDiv((serverPlayer.head.x - @) * LERP_PCT, 100),
                 !.head.y = @ + RoundDiv((serverPlayer.head.y - @) * LERP_PCT, 100),
                 !.angle = serverPlayer.angle]
\* if (dist > 250) { head = {...serverPlayer.head}; angle = serverPlayer.angle }
Snap(player, serverPlayer) ==
  [player EXCEPT !.head = serverPlayer.head, !.angle = serverPlayer.angle]
\* No correction between 10 and 250
LerpStill(player, serverPlayer) == player
\* A correction of 15 % away from the server head
LerpAway(player, serverPlayer) ==
  [player EXCEPT !.head.x = @ - RoundDiv((serverPlayer.head.x - @) * LERP_PCT, 100),
                 !.head.y = @ - RoundDiv((serverPlayer.head.y - @) * LERP_PCT, 100)]
\* else if (dist > 10) { head.x += (serverPlayer.head.x - head.x) * 0.15; ... }
Lerp(player, serverPlayer) ==
  [player EXCEPT !.head.x = @ + RoundDiv((serverPlayer.head.x - @) * LERP_PCT, 100),
                 !.head.y = @ + RoundDiv((serverPlayer.head.y - @) * LERP_PCT, 100)]
\* handleRoomState(state): state.players and state.foods may be missing, and
\* state.players may lack the client's own id
handleRoomState(g, state) ==
  LET g1 == [g EXCEPT !.networkPlayers =
                        IF "players" \in DOMAIN state THEN state.players ELSE <<>>]
      g2 == IF "foods" \in DOMAIN state THEN [g1 EXCEPT !.foods = state.foods] ELSE g1
  IN IF "players" \in DOMAIN state /\ Me \in DOMAIN state.players
     THEN LET serverPlayer == state.players[Me].snake
              g3 == [g2 EXCEPT !.player.length = serverPlayer.length,
                               !.player.speed = serverPlayer.speed,
                               !.player.dead = serverPlayer.dead,
                               !.player.history = serverPlayer.history]
          IN IF HypotMore(g3.player.head, serverPlayer.head, SNAP_DIST)
             THEN [g3 EXCEPT !.player = Snap(@, serverPlayer)]
             ELSE IF HypotMore(g3.player.head, serverPlayer.head, SMOOTH_DIST)
                  THEN [g3 EXCEPT !.player = Lerp(@, serverPlayer)]
                  ELSE g3
     ELSE g2
\* socket.on("room_state", handleRoomState)
room_state(state) ==
  /\ Len(received) < MaxSnapshots
  /\ game' = handleRoomState(game, state)
  /\ received' = Append(received, [state |-> state, before |-> game.player])
  /\ ui' = [ui EXCEPT !.last = "room_state", !.deaths = <<>>, !.overs = 0, !.ate = <<>>,
                       !.sent = <<>>]
  /\ UNCHANGED <<rooms, roomKeys, conn, currentRoom, joined, emitted, eatLog, tickLog,
                 requests, now, lastLoop, relay>>

\* ---- the client's game engine (src/src/App.tsx) ---------------------------
\* The threaded state of one client handler: a.g is game.current, a.rs and a.k
\* the stream of Math.random() and the draws consumed, a.time is
\* performance.now().  Bookkeeping: a.deaths lists the calls of
\* handleSnakeDeath as [who, reason, wasDead, foods] in order (who 0 is the
\* player, who i > 0 the bot i; foods is the number of items dropped),
\* a.overs counts the calls of gameOver, a.gained is the score handed to
\* setScore, a.ate lists who consumed food: [who, dead].
StartApp(rs, time) ==
  [g |-> game, rs |-> rs, k |-> 0, time |-> time, deaths |-> <<>>, overs |-> 0, gained |-> 0,
   ate |-> <<>>, sent |-> <<>>]
SnakeOf(a, who) == IF who = 0 THEN a.g.player ELSE a.g.bots[who]
SetSnake(a, who, sn) ==
  IF who = 0 THEN [a EXCEPT !.g.player = sn] ELSE [a EXCEPT !.g.bots[who] = sn]
\* Math.hypot(px - qx, py - qy) < r, for r in world units
HypotUnder(p, q, r) ==
  /\ Abs(p.x - q.x) < r * SUBUNIT
  /\ Abs(p.y - q.y) < r * SUBUNIT
  /\ (p.x - q.x) * (p.x - q.x) + (p.y - q.y) * (p.y - q.y) < (r * SUBUNIT) * (r * SUBUNIT)
\* Math.atan2(dy, dx) to the nearest eighth of a turn
Atan2(dy, dx) ==
  LET q == IF 1000 * Abs(dy) < 414 * Abs(dx) THEN 0
           ELSE IF 1000 * Abs(dx) < 414 * Abs(dy) THEN 2 ELSE 1
      h == IF dx >= 0 THEN q ELSE 4 - q
  IN IF dy >= 0 THEN h ELSE -h

\* spawnFood(count, x, y, isSuper), one item: at = <<>> draws x and y, at =
\* <<pos>> puts the item at pos itself; a normal item draws colour and size
clientSpawnOne(a, at, isSuper) ==
  LET a1 == IF at = <<>> THEN Next1(Next1(a)) ELSE a
      pos == IF at = <<>>
             THEN ClientPoint(Scaled(Draw(a), CLIENT_WORLD_SIZE - 100) + 50,
                              Scaled(Draw(Next1(a)), CLIENT_WORLD_SIZE - 100) + 50)
             ELSE at[1]
      a2 == IF isSuper THEN a1 ELSE Next1(a1)
      size == IF isSuper THEN SUPER_SIZE
              ELSE Scaled(Draw(a2), NORMAL_SIZE_SPAN) + NORMAL_SIZE_MIN
      a3 == IF isSuper THEN a2 ELSE Next1(a2)
  IN [a3 EXCEPT !.g.foods = Append(@, [x |-> pos.x, y |-> pos.y, size |-> size,
                                       value |-> IF isSuper THEN SUPER_VALUE ELSE NORMAL_VALUE,
                                       isSuper |-> isSuper])]
RECURSIVE clientSpawnFood(_, _)
clientSpawnFood(a, count) ==
  IF count <= 0 THEN a ELSE clientSpawnFood(clientSpawnOne(a, <<>>, FALSE), count - 1)

\* createSnake(x, y, isBot, config): one draw (randomTheme); result [a, snake]
clientCreateSnake(a, x, y, isBot, config) ==
  [a |-> Next1(a),
   snake |-> [head |-> ClientPoint(x, y), angle |-> 0, targetAngle |-> 0,
              history |-> [i \in 1..INIT_HISTORY |-> ClientPoint(x - (i - 1) * RECORD_DIST, y)],
              length |-> CLIENT_LENGTH, speed |-> config.baseSpeed, dead |-> FALSE,
              respawnTime |-> 0, isBot |-> isBot, decisionTimer |-> 0,
              isBoosting |-> FALSE, score |-> 0]]

\* initGame's loop: a bot in a corner drawn by Math.random() > 0.5, twice
RECURSIVE initBots(_, _, _)
initBots(a, config, n) ==
  IF n <= 0 THEN a
  ELSE LET bx == IF Draw(a) > 500 THEN BOT_CORNER ELSE CLIENT_WORLD_SIZE - BOT_CORNER
           by == IF Draw(Next1(a)) > 500 THEN BOT_CORNER ELSE CLIENT_WORLD_SIZE - BOT_CORNER
           made == clientCreateSnake(Next1(Next1(a)), bx, by, TRUE, config)
       IN initBots([made.a EXCEPT !.g.bots = Append(@, made.snake)], config, n - 1)
\* initGame(selectedDifficulty); setScore(0) and setGameState("PLAYING") are
\* applied by the handlers that call it
initGame(a, level) ==
  LET config == DIFFICULTY_CONFIG[level]
      made == clientCreateSnake(a, CLIENT_WORLD_SIZE \div 2, CLIENT_WORLD_SIZE \div 2,
                                FALSE, config)
      a1 == initBots([made.a EXCEPT !.g.bots = <<>>], config, config.botCount)
      a2 == [a1 EXCEPT !.g.player = made.snake, !.g.foods = <<>>, !.g.lastTime = a.time,
                       !.g.config = config]
  IN clientSpawnFood(a2, FOOD_COUNT)

\* the positions history[i * SEGMENT_SPACING_IDX], i < length, that exist
clientBodyPositions(snake) ==
  LET n == Cardinality({i \in 0..(snake.length - 1) :
                           i * SEGMENT_SPACING_IDX < Len(snake.history)})
  IN [i \in 1..n |-> snake.history[(i - 1) * SEGMENT_SPACING_IDX + 1]]
RECURSIVE dropSuper(_, _, _)
dropSuper(a, positions, n) ==
  IF n > Len(positions) THEN a
  ELSE dropSuper(clientSpawnOne(a, <<positions[n]>>, TRUE), positions, n + 1)
\* handleSnakeDeath(snake, reason): the shatter draws three numbers per
\* particle, Math.max(3, floor(length * 5 / positions)) particles per position
\* (length * 5 at the head if there is no position)
handleSnakeDeath(a, who, reason) ==
  LET snake == SnakeOf(a, who)
      a1 == SetSnake(a, who, [snake EXCEPT !.dead = TRUE])
      positions == clientBodyPositions(snake)
      particles == IF Len(positions) > 0
                   THEN Len(positions) * Max(3, (snake.length * 5) \div Len(positions))
                   ELSE snake.length * 5
      a2 == dropSuper([a1 EXCEPT !.k = @ + 3 * particles], positions, 1)
      a3 == [a2 EXCEPT !.deaths = Append(@, [who |-> who, reason |-> reason,
                                             wasDead |-> snake.dead,
                                             foods |-> Len(positions)])]
  IN IF snake.isBot
     THEN SetSnake(a3, who, [SnakeOf(a3, who) EXCEPT !.respawnTime = a.time + BOT_RESPAWN_DELAY])
     ELSE [a3 EXCEPT !.overs = @ + 1]

\* ---- updateAndDraw: the physics of one animation frame ---------------------
\* the snakes the frame iterates: [g.player] in multiplayer, else [g.player, ...g.bots]
FrameSnakes(g, mp) == IF mp THEN <<0>> ELSE [i \in 1..(Len(g.bots) + 1) |-> i - 1]
\* the index of the nearest food item (the first of the nearest), distances
\* in whole units
NearestFood(g, head) ==
  LET d2(i) == ((head.x - g.foods[i].x) \div SUBUNIT) * ((head.x - g.foods[i].x) \div SUBUNIT)
               + ((head.y - g.foods[i].y) \div SUBUNIT) * ((head.y - g.foods[i].y) \div SUBUNIT)
  IN CHOOSE i \in DOMAIN g.foods :
        \A j \in DOMAIN g.foods : d2(i) < d2(j) \/ (d2(i) = d2(j) /\ i <= j)
\* The bot's decision, taken when its decisionTimer has run out: a danger
\* sensor ahead of the head, then a hard turn with boost, or food seeking, or
\* a slight wander.  1.5 rad is 2 eighths of a turn to the nearest eighth.
botThink(a, who, dt, mp) ==
  LET sn == SnakeOf(a, who)
      timer == sn.decisionTimer - dt
  IN IF timer > 0 THEN SetSnake(a, who, [sn EXCEPT !.decisionTimer = timer])
     ELSE
       LET next == Scaled(Draw(a), 200) + 100
           a1 == Next1(a)
           lookDist == 80 * SUBUNIT + RoundDiv(sn.speed * SUBUNIT, 100)
           ahead == [x |-> sn.head.x + RoundDiv(Cos(sn.angle) * lookDist, 1000),
                     y |-> sn.head.y + RoundDiv(Sin(sn.angle) * lookDist, 1000)]
           border == \/ ahead.x < 50 * SUBUNIT \/ ahead.x > (CLIENT_WORLD_SIZE - 50) * SUBUNIT
                     \/ ahead.y < 50 * SUBUNIT \/ ahead.y > (CLIENT_WORLD_SIZE - 50) * SUBUNIT
           snakes == FrameSnakes(a.g, mp)
           body == \E n \in DOMAIN snakes :
                      LET other == SnakeOf(a, snakes[n])
                      IN /\ snakes[n] # who /\ ~other.dead
                         /\ \E i \in 0..(other.length - 1) :
                               /\ i % 2 = 0
                               /\ i * SEGMENT_SPACING_IDX < Len(other.history)
                               /\ HypotUnder(ahead, other.history[i * SEGMENT_SPACING_IDX + 1], 50)
       IN IF border \/ body
          THEN SetSnake(Next1(a1), who,
                        [sn EXCEPT !.targetAngle = @ + (IF Draw(a1) > 500 THEN 2 ELSE -2),
                                   !.isBoosting = TRUE, !.decisionTimer = 400])
          ELSE IF Draw(a1) < 800 /\ Len(a.g.foods) > 0
               THEN LET f == a.g.foods[NearestFood(a.g, sn.head)]
                    IN SetSnake(Next1(a1), who,
                                [sn EXCEPT !.targetAngle = Atan2(f.y - sn.head.y, f.x - sn.head.x),
                                           !.isBoosting = FALSE, !.decisionTimer = next])
               ELSE LET a2 == Next1(a1)
                    IN SetSnake(Next1(a2), who,
                                [sn EXCEPT !.targetAngle = @ + RoundDiv((Draw(a2) - 500) * 1273, 1000000),
                                           !.isBoosting = FALSE, !.decisionTimer = next])

\* Movement: the turn towards targetAngle and the step of the head; currentSpeed
\* is taken before the bot's decision
clientMove(sn, currentSpeed, turnSpeed, dt) ==
  LET angle == sn.angle + RoundDiv(WrapAngle(sn.targetAngle - sn.angle) * turnSpeed * dt, 10000)
      step == RoundDiv(currentSpeed * dt * SUBUNIT, 10000)
  IN [sn EXCEPT !.angle = angle,
                !.head.x = @ + RoundDiv(Cos(angle) * step, 1000),
                !.head.y = @ + RoundDiv(Sin(angle) * step, 1000)]
ClientOutside(head) ==
  \/ head.x < 0 \/ head.x > CLIENT_WORLD_SIZE * SUBUNIT
  \/ head.y < 0 \/ head.y > CLIENT_WORLD_SIZE * SUBUNIT
\* History: unshift the head once it is RECORD_DIST from history[0]
clientRecord(sn) ==
  IF ~HypotUnder(sn.head, sn.history[1], RECORD_DIST)
  THEN LET h == <<sn.head>> \o sn.history
           maxHistory == sn.length * SEGMENT_SPACING_IDX + TRAIL_SLACK
       IN [sn EXCEPT !.history = IF Len(h) > maxHistory THEN SubSeq(h, 1, maxHistory) ELSE h]
  ELSE sn
\* g.foods.splice(i, 1), i 0-based
Splice(q, i) == SubSeq(q, 1, i) \o SubSeq(q, i + 2, Len(q))
\* Food collision: for (i = g.foods.length - 1; i >= 0; i--); the stats change
\* off line only: speed += speedInc * 0.25, in tenths
RECURSIVE clientEat(_, _, _, _)
clientEat(a, who, mp, i) ==
  IF i < 0 THEN a
  ELSE IF i >= Len(a.g.foods) THEN clientEat(a, who, mp, i - 1)
  ELSE
    LET sn == SnakeOf(a, who)
        f == a.g.foods[i + 1]
    IN IF HypotUnder(sn.head, f, HEAD_RADIUS + f.size)
       THEN LET a1 == [a EXCEPT !.g.foods = Splice(@, i),
                                !.ate = Append(@, [who |-> who, dead |-> sn.dead])]
            IN IF mp THEN clientEat(a1, who, mp, i - 1)
               ELSE LET grown == [sn EXCEPT !.score = @ + f.value,
                                            !.length = CLIENT_LENGTH + (sn.score + f.value) \div 40,
                                            !.speed = @ + RoundDiv(a.g.config.speedInc * 25, 100)]
                        a2 == SetSnake(a1, who, grown)
                        a3 == IF sn.isBot THEN a2 ELSE [a2 EXCEPT !.gained = @ + f.value]
                    IN clientEat(clientSpawnOne(a3, <<>>, FALSE), who, mp, i - 1)
       ELSE clientEat(a, who, mp, i - 1)
\* Snake collision (single player): collisionTargets.forEach; the break
\* leaves the loop over the segments only
RECURSIVE clientCollide(_, _, _)
clientCollide(a, who, other) ==
  IF other > Len(a.g.bots) THEN a
  ELSE LET o == SnakeOf(a, other)
           sn == SnakeOf(a, who)
       IN IF o.dead \/ other = who THEN clientCollide(a, who, other + 1)
          ELSE IF \E i \in 0..(o.length - 1) :
                     /\ i * SEGMENT_SPACING_IDX < Len(o.history)
                     /\ HypotUnder(sn.head, o.history[i * SEGMENT_SPACING_IDX + 1], KILL_RADIUS)
               THEN clientCollide(handleSnakeDeath(a, who, "Enemy Bot"), who, other + 1)
               ELSE clientCollide(a, who, other + 1)
\* the steps of the frame for one living snake, in the order of the source
stepThink(a, who, dt, mp) == IF SnakeOf(a, who).isBot THEN botThink(a, who, dt, mp) ELSE a
stepMove(a, who, currentSpeed, dt) ==
  SetSnake(a, who, clientMove(SnakeOf(a, who), currentSpeed, a.g.config.turnSpeed, dt))
\* A bounds check that kills in multiplayer too
stepBoundsAlways(a, who, mp) ==
  IF ClientOutside(SnakeOf(a, who).head) THEN handleSnakeDeath(a, who, "World Border") ELSE a
stepBounds(a, who, mp) ==
  IF ClientOutside(SnakeOf(a, who).head) /\ ~mp
  THEN handleSnakeDeath(a, who, "World Border") ELSE a
stepRecord(a, who) == SetSnake(a, who, clientRecord(SnakeOf(a, who)))
stepEat(a, who, mp) == clientEat(a, who, mp, Len(a.g.foods) - 1)
stepCollide(a, who, mp) == IF mp THEN a ELSE clientCollide(a, who, 0)
respawnBot(a, who) ==
  LET bx == Scaled(Draw(a), CLIENT_WORLD_SIZE - 200) + 100
      by == Scaled(Draw(Next1(a)), CLIENT_WORLD_SIZE - 200) + 100
      made == clientCreateSnake(Next1(Next1(a)), bx, by, TRUE, a.g.config)
  IN SetSnake(made.a, who, made.snake)
\* snakes.forEach((snake) => {...}) for one snake
frameSnake(a, who, dt, mp) ==
  LET sn == SnakeOf(a, who)
      currentSpeed == IF sn.isBoosting THEN sn.speed * 2 ELSE sn.speed
  IN IF sn.dead
     THEN IF sn.isBot /\ a.time > sn.respawnTime THEN respawnBot(a, who) ELSE a
     ELSE stepCollide(stepEat(stepRecord(stepBounds(stepMove(stepThink(a, who, dt, mp),
                                                               who, currentSpeed, dt),
                                                     who, mp), who), who, mp), who, mp)
RECURSIVE frameSnakes(_, _, _, _, _)
frameSnakes(a, snakes, n, dt, mp) ==
  IF n > Len(snakes) THEN a
  ELSE frameSnakes(frameSnake(a, snakes[n], dt, mp), snakes, n + 1, dt, mp)
sendInput(a, mp) ==
  IF mp /\ a.time - a.g.lastNetworkUpdate > 30
  THEN [a EXCEPT !.g.lastNetworkUpdate = a.time,
                 !.sent = Append(@, [ev |-> "player_input",
                                     targetAngle |-> a.g.player.targetAngle,
                                     isBoosting |-> a.g.player.isBoosting])]
  ELSE a
\* updateAndDraw(time) with the gameState and isMultiplayer of its render: dt
\* is clamped to 0.1 s; the physics run while PLAYING; in multiplayer a
\* player_input is sent when 30 ms have passed
updateAndDraw(a, gameState, mp) ==
  LET dt == Min(a.time - a.g.lastTime, DT_MAX_MS)
      a1 == [a EXCEPT !.g.lastTime = a.time]
  IN IF gameState # "PLAYING" THEN a1
     ELSE sendInput(frameSnakes(a1, FrameSnakes(a1.g, mp), 1, dt, mp), mp)

\* ---- the client's handlers -------------------------------------------------
ServerOnly ==
  UNCHANGED <<rooms, roomKeys, conn, currentRoom, joined, emitted, eatLog, tickLog, requests,
              now, lastLoop, relay>>
\* What a client handler leaves: game.current, and the React state after the
\* render that follows: gameOver() sets GAME_OVER, setScore adds the gain
FinishApp(a, name, gameState, mp, score) ==
  /\ game' = a.g
  /\ ui' = [ui EXCEPT !.gameState = IF a.overs > 0 THEN "GAME_OVER" ELSE gameState,
                      !.isMultiplayer = mp, !.score = score + a.gained, !.time = a.time,
                      !.last = name, !.deaths = a.deaths, !.overs = a.overs, !.ate = a.ate,
                      !.sent = a.sent,
                      !.games = IF name \in {"single", "join"} THEN @ + 1 ELSE @,
                      !.inRoom = @ \/ name = "join"]
  /\ UNCHANGED received
  /\ ServerOnly
\* handleSinglePlayerStart(level): a button of the menu
handleSinglePlayerStart(level, rs) ==
  /\ ui.gameState = "MENU"
  /\ ui.games < MaxGames
  /\ FinishApp(initGame(StartApp(rs, ui.time), level), "single", "PLAYING", FALSE, 0)
\* handleCreateJoinRoom(): a button of the menu; one draw for the theme, then
\* join_room is sent and the game starts as HARD
handleCreateJoinRoom(rs) ==
  /\ ui.gameState = "MENU"
  /\ ui.games < MaxGames
  /\ LET a == Next1(StartApp(rs, ui.time))
     IN FinishApp(initGame([a EXCEPT !.sent = <<[ev |-> "join_room"]>>], "HARD"),
                  "join", "PLAYING", TRUE, 0)
\* KeyP and the pause button: PLAYING <-> PAUSED
togglePause ==
  /\ ui.gameState \in {"PLAYING", "PAUSED"}
  /\ FinishApp(StartApp(<<0>>, ui.time), "pause",
               IF ui.gameState = "PLAYING" THEN "PAUSED" ELSE "PLAYING",
               ui.isMultiplayer, ui.score)
\* the Quit button of the pause overlay: setGameState("MENU")
quit ==
  /\ ui.gameState = "PAUSED"
  /\ FinishApp(StartApp(<<0>>, ui.time), "quit", "MENU", ui.isMultiplayer, ui.score)
\* the button of the game-over overlay: a respawn request in multiplayer,
\* else back to the menu
afterGameOver ==
  /\ ui.gameState = "GAME_OVER"
  /\ IF ui.isMultiplayer
     THEN FinishApp([StartApp(<<0>>, ui.time) EXCEPT !.sent = <<[ev |-> "respawn"]>>],
                    "respawn", "PLAYING", TRUE, 0)
     ELSE FinishApp(StartApp(<<0>>, ui.time), "reboot", "MENU", FALSE, ui.score)
\* handlePointerMove (while PLAYING)
handlePointerMove(angle) ==
  /\ ui.gameState = "PLAYING"
  /\ game.player.targetAngle # angle
  /\ FinishApp([StartApp(<<0>>, ui.time) EXCEPT !.g.player.targetAngle = angle], "pointer",
               ui.gameState, ui.isMultiplayer, ui.score)
\* requestAnimationFrame(updateAndDraw), elapsed ms after the last frame
animationFrame(elapsed, rs) ==
  /\ ui.frames < MaxFrames
  /\ LET a == updateAndDraw(StartApp(rs, ui.time + elapsed), ui.gameState, ui.isMultiplayer)
     IN /\ game' = a.g
        /\ ui' = [ui EXCEPT !.gameState = IF a.overs > 0 THEN "GAME_OVER" ELSE @,
                            !.score = @ + a.gained, !.time = a.time, !.last = "frame",
                            !.deaths = a.deaths, !.overs = a.overs, !.ate = a.ate,
                            !.sent = a.sent, !.frames = @ + 1]
  /\ UNCHANGED received
  /\ ServerOnly
\* socket.on("you_died", handleYouDied): setScore(data.score); gameOver()
you_died(data) ==
  /\ ui.last # "you_died"
  /\ game' = game
  /\ ui' = [ui EXCEPT !.gameState = "GAME_OVER", !.score = data.score, !.last = "you_died",
                      !.deaths = <<>>, !.overs = 1, !.ate = <<>>, !.sent = <<>>]
  /\ UNCHANGED received
  /\ ServerOnly

\* ---- the relay server (src/server.ts) --------------------------------------
\* const rooms = {} (keys: its keys in insertion order); no connection yet
NewRelay ==
  [rooms |-> <<>>, keys |-> <<>>, conn |-> [s \in Sockets |-> "new"],
   currentRoom |-> [s \in Sockets |-> Null], joined |-> [s \in Sockets |-> {}], out |-> <<>>]
\* What the clients send as player_update
Updates == {[score |-> 0], [score |-> 10]}
\* io.to(roomCode): the connected sockets in the socket.io room
RelayMembers(r, roomCode) == {s \in Sockets : r.conn[s] = "open" /\ roomCode \in r.joined[s]}
\* The rest of the program does not move while the relay server handles a message
RelayOnly ==
  UNCHANGED <<rooms, roomKeys, conn, currentRoom, joined, emitted, eatLog, tickLog, requests,
              now, lastLoop, game, received, ui>>
relay_connection(s) ==
  /\ relay.conn[s] = "new"
  /\ relay' = [relay EXCEPT !.conn[s] = "open", !.currentRoom[s] = Null, !.out = <<>>]
  /\ RelayOnly
\* socket.on("join_room", (roomCode) => ...)
relayJoin(r, s, roomCode) ==
  LET cur == r.currentRoom[s]
      r1 == IF Truthy(cur)
            THEN LET ra == [r EXCEPT !.joined[s] = @ \ {cur}]
                 IN IF cur \in DOMAIN ra.rooms /\ s \in DOMAIN ra.rooms[cur]
                    THEN [ra EXCEPT !.rooms[cur] = RemoveKey(@, s)]
                    ELSE ra
            ELSE r
      r2 == [r1 EXCEPT !.joined[s] = @ \cup {roomCode}, !.currentRoom[s] = roomCode]
      r3 == IF roomCode \notin DOMAIN r2.rooms
            THEN [r2 EXCEPT !.rooms = @ @@ (roomCode :> <<>>), !.keys = Append(@, roomCode)]
            ELSE r2
  IN [r3 EXCEPT !.out = <<>>]
relay_join_room(s, roomCode) ==
  /\ relay.conn[s] = "open"
  /\ relay' = relayJoin(relay, s, roomCode)
  /\ RelayOnly
\* socket.on("player_update", (data) => ...)
relayUpdate(r, s, data) ==
  LET cur == r.currentRoom[s]
  IN IF Truthy(cur) /\ cur \in DOMAIN r.rooms
     THEN [r EXCEPT !.rooms[cur] = IF s \in DOMAIN @ THEN [@ EXCEPT ![s] = data]
                                   ELSE @ @@ (s :> data),
                    !.out = <<>>]
     ELSE [r EXCEPT !.out = <<>>]
relay_player_update(s, data) ==
  /\ relay.conn[s] = "open"
  /\ relay' = relayUpdate(relay, s, data)
  /\ RelayOnly
\* socket.on("chat_message") and socket.on("player_death"): relayed to the
\* room, the latter to all but the sender
relay_chat_message(s, data) ==
  /\ relay.conn[s] = "open"
  /\ relay' = [relay EXCEPT !.out =
                  IF Truthy(relay.currentRoom[s])
                  THEN <<[ev |-> "chat_message", to |-> RelayMembers(relay, relay.currentRoom[s]),
                          data |-> data]>>
                  ELSE <<>>]
  /\ RelayOnly
relay_player_death(s, data) ==
  /\ relay.conn[s] = "open"
  /\ relay' = [relay EXCEPT !.out =
                  IF Truthy(relay.currentRoom[s])
                  THEN <<[ev |-> "player_death",
                          to |-> RelayMembers(relay, relay.currentRoom[s]) \ {s},
                          data |-> data]>>
                  ELSE <<>>]
  /\ RelayOnly
\* socket.on("disconnect"): socket.io has taken the socket out of its rooms
relayDisconnect(r, s) ==
  LET cur == r.currentRoom[s]
      r0 == [r EXCEPT !.conn[s] = "closed", !.joined[s] = {}, !.out = <<>>]
  IN IF Truthy(cur) /\ cur \in DOMAIN r0.rooms
     THEN LET r1 == [r0 EXCEPT !.rooms[cur] = RemoveKey(@, s)]
          IN IF DOMAIN r1.rooms[cur] = {}
             THEN [r1 EXCEPT !.rooms = RemoveKey(@, cur), !.keys = RemoveFromSeq(@, cur)]
             ELSE r1
     ELSE r0
relay_disconnect(s) ==
  /\ relay.conn[s] = "open"
  /\ relay' = relayDisconnect(relay, s)
  /\ RelayOnly
\* setInterval: room_state with the player map, to every room of the registry
relay_interval ==
  /\ relay.rooms # <<>>
  /\ relay' = [relay EXCEPT !.out =
                  [i \in DOMAIN relay.keys |-> [ev |-> "room_state",
                                                to |-> RelayMembers(relay, relay.keys[i]),
                                                data |-> relay.rooms[relay.keys[i]]]]]
  /\ RelayOnly

\* ---- the specification ----------------------------------------------------
Init ==
  /\ rooms = <<>>
  /\ roomKeys = <<>>
  /\ conn = [s \in Sockets |-> "new"]
  /\ currentRoom = [s \in Sockets |-> Null]
  /\ joined = [s \in Sockets |-> {}]
  /\ emitted = <<>>
  /\ eatLog = <<>>
  /\ tickLog = <<>>
  /\ requests = 0
  /\ now = 0
  /\ lastLoop = 0
  /\ game = NewGame
  /\ received = <<>>
  /\ relay = NewRelay
  /\ ui = NewUi

Next ==
  \/ \E s \in Sockets : connection(s)
  \/ \E s \in Sockets, roomCode \in RoomCodes : join_room(s, roomCode, JoinTheme(s), <<0, 500>>)
  \/ \E s \in Sockets : player_input(s, 4, TRUE)
  \/ \E s \in Sockets : respawn(s, <<>>, <<500, 0>>)
  \/ \E s \in Sockets : chat_message(s, "hi")
  \/ \E s \in Sockets : disconnect(s)
  \/ gameLoop(<<0, 500>>)
  \/ timePasses(MaxPeriods)

Spec == Init /\ [][Next]_vars

\* ---- the arena: the connections play in room "A" ---------------------------
\* Every client joins room "A" once and then steers, respawns or disconnects
\* (the clients of Spec also switch rooms and chat).  The streams place fresh
\* serpents next to each other, next to the food and next to the south-west
\* corner; with the boost a serpent crosses a border within ArenaPeriods.
ArenaStreams == {<<0, 0, 500>>, <<500, 0>>}
ArenaInputs == {[targetAngle |-> 4, isBoosting |-> TRUE], [targetAngle |-> 6, isBoosting |-> TRUE]}

NextArena ==
  \/ \E s \in Sockets : connection(s)
  \/ \E s \in {c \in Sockets : currentRoom[c] = Null}, rs \in ArenaStreams :
        join_room(s, "A", JoinTheme(s), rs)
  \/ \E s \in Sockets, data \in ArenaInputs : player_input(s, data.targetAngle, data.isBoosting)
  \/ \E s \in Sockets : respawn(s, <<>>, <<0, 0, 500>>)
  \/ \E s \in Sockets : disconnect(s)
  \/ gameLoop(<<500, 0>>)
  \/ timePasses(ArenaPeriods)

SpecArena == Init /\ [][NextArena]_vars

\* The server with clients that also send a steering value that is not a
\* finite number.
SteeringValues == {4, NaN}
NextInput ==
  \/ \E s \in Sockets : connection(s)
  \/ \E s \in {c \in Sockets : currentRoom[c] = Null}, rs \in ArenaStreams :
        join_room(s, "A", JoinTheme(s), rs)
  \/ \E s \in Sockets, targetAngle \in SteeringValues : player_input(s, targetAngle, TRUE)
  \/ gameLoop(<<500, 0>>)
  \/ timePasses(ArenaPeriods)
SpecInput == Init /\ [][NextInput]_vars

\* The server with a game loop that may be late by several periods
NextStall ==
  \/ \E s \in Sockets : connection(s)
  \/ \E s \in {c \in Sockets : currentRoom[c] = Null}, rs \in ArenaStreams :
        join_room(s, "A", JoinTheme(s), rs)
  \/ \E s \in Sockets : player_input(s, 4, TRUE)
  \/ gameLoop(<<500, 0>>)
  \/ timePasses(StallPeriods)
SpecStall == Init /\ [][NextStall]_vars

\* The client alone: a locally predicted head and heading, and snapshots whose
\* server head lies at, just beyond and far beyond the two thresholds.
LocalHeads == {ClientPoint(0, 0), ClientPoint(5, 0),
               ClientPoint(CLIENT_WORLD_SIZE \div 2, CLIENT_WORLD_SIZE \div 2)}
LocalAngles == {0, 1}
ServerHeads == {ClientPoint(0, 0), ClientPoint(10, 0), ClientPoint(6, 8), ClientPoint(11, 0),
                ClientPoint(250, 0), ClientPoint(150, 200), ClientPoint(251, 0),
                ClientPoint(1000, 0)}
ServerAngles == {2, 5}
ServerSnake(head, angle) ==
  [head |-> head, angle |-> angle, history |-> <<head>>, length |-> INIT_LENGTH,
   speed |-> BASE_SPEED, dead |-> FALSE]
Snapshots ==
  {[players |-> [p \in {Me} |-> [snake |-> ServerSnake(h, a), playerName |-> "P1"]],
    foods |-> <<>>] : h \in ServerHeads, a \in ServerAngles}
  \cup {[players |-> [p \in {"s2"} |-> [snake |-> ServerSnake(ClientPoint(0, 0), 2),
                                        playerName |-> "P2"]]],
        [foods |-> <<>>]}
InitClient ==
  /\ rooms = <<>>
  /\ roomKeys = <<>>
  /\ conn = [s \in Sockets |-> "new"]
  /\ currentRoom = [s \in Sockets |-> Null]
  /\ joined = [s \in Sockets |-> {}]
  /\ emitted = <<>>
  /\ eatLog = <<>>
  /\ tickLog = <<>>
  /\ requests = 0
  /\ now = 0
  /\ lastLoop = 0
  /\ \E h \in LocalHeads, a \in LocalAngles :
        game = [NewGame EXCEPT !.player.head = h, !.player.angle = a]
  /\ received = <<>>
  /\ relay = NewRelay
  /\ ui = NewUi
NextClient == \E state \in Snapshots : room_state(state)
SpecClient == InitClient /\ [][NextClient]_vars

\* Reconciliation against a server that stands still: the client applies the
\* same snapshot again and again (the server broadcasts room_state on every
\* tick of its interval, part_000:515-519) and does not move in between.  Only
\* the last application is kept in received, with the number n of
\* applications so far, counted up to MaxApplied.
StillSnapshots == {state \in Snapshots : "players" \in DOMAIN state /\ Me \in DOMAIN state.players}
room_state_still(state) ==
  /\ received # <<>> => state = received[1].state
  /\ game' = handleRoomState(game, state)
  /\ received' = <<[state |-> state, before |-> game.player,
                    n |-> IF received = <<>> THEN 1
                          ELSE IF received[1].n < MaxApplied THEN received[1].n + 1
                          ELSE MaxApplied]>>
  /\ ui' = [ui EXCEPT !.last = "room_state"]
  /\ UNCHANGED <<rooms, roomKeys, conn, currentRoom, joined, emitted, eatLog, tickLog,
                 requests, now, lastLoop, relay>>
NextConverge == \E state \in StillSnapshots : room_state_still(state)
SpecConverge == InitClient /\ [][NextConverge]_vars /\ WF_vars(NextConverge)

\* The client application: the menu, a single-player game with bots, a
\* multiplayer game fed with snapshots and you_died messages.  The server sends
\* room_state and you_died to the members of a room (part_000:325, :361), so
\* they arrive once the client has sent join_room.  The streams put
\* the bots of a game into one corner or into two; the snapshots put the
\* server head next to a food item or next to the east border.
AppStreams == {<<0>>, <<600, 400, 0>>}
AppLevels == {"HARD"}
FrameSteps == {50}
FrameStreams == {<<600, 400, 0>>}
AppFood(x, y) ==
  [x |-> x * SUBUNIT, y |-> y * SUBUNIT, size |-> SUPER_SIZE, value |-> SUPER_VALUE,
   isSuper |-> TRUE]
AppHeads == {ClientPoint(CLIENT_WORLD_SIZE \div 2, CLIENT_WORLD_SIZE \div 2),
             ClientPoint(CLIENT_WORLD_SIZE - 10, CLIENT_WORLD_SIZE \div 2)}
AppSnapshots ==
  {[players |-> [p \in {Me} |-> [snake |-> [ServerSnake(hd[1], 0) EXCEPT !.dead = hd[2]],
                                 playerName |-> "P1"]],
    foods |-> <<AppFood(CLIENT_WORLD_SIZE \div 2 + 40, CLIENT_WORLD_SIZE \div 2)>>] :
      hd \in (AppHeads \X {FALSE}) \cup {<<ClientPoint(CLIENT_WORLD_SIZE \div 2,
                                                      CLIENT_WORLD_SIZE \div 2), TRUE>>}}
NextApp ==
  \/ \E level \in AppLevels, rs \in AppStreams : handleSinglePlayerStart(level, rs)
  \/ handleCreateJoinRoom(<<0>>)
  \/ togglePause
  \/ quit
  \/ afterGameOver
  \/ \E angle \in {2} : handlePointerMove(angle)
  \/ \E elapsed \in FrameSteps, rs \in FrameStreams : animationFrame(elapsed, rs)
  \/ \E state \in AppSnapshots : ui.inRoom /\ room_state(state)
  \/ ui.inRoom /\ you_died([score |-> 7, killedBy |-> "P2"])
SpecApp == Init /\ [][NextApp]_vars

\* The relay server alone
NextRelay ==
  \/ \E s \in Sockets : relay_connection(s)
  \/ \E s \in Sockets, roomCode \in RoomCodes : relay_join_room(s, roomCode)
  \/ \E s \in Sockets, data \in Updates : relay_player_update(s, data)
  \/ \E s \in Sockets : relay_chat_message(s, "hi")
  \/ \E s \in Sockets : relay_player_death(s, [score |-> 10])
  \/ \E s \in Sockets : relay_disconnect(s)
  \/ relay_interval
SpecRelay == Init /\ [][NextRelay]_vars

\* ---- what the claims speak of ----------------------------------------------
Indices(q) == 1..Len(q)
SuperCount(foods) == Cardinality({i \in Indices(foods) : foods[i].isSuper})
NormalCount(foods) == Cardinality({i \in Indices(foods) : ~foods[i].isSuper})
\* the player_death messages about player p of room c among msgs
DeathsOf(msgs, c, p) ==
  {i \in Indices(msgs) : msgs[i].ev = "player_death" /\ msgs[i].room = c
                         /\ msgs[i].data.playerId = p}
YouDiedTo(msgs, p) == {i \in Indices(msgs) : msgs[i].ev = "you_died" /\ msgs[i].to = {p}}
\* the step is a run of the game loop
IsGameLoop == lastLoop' # lastLoop
\* the last handler was the game loop and ticked a room with players
AfterTick == \E i \in Indices(emitted) : emitted[i].ev = "room_state"
CeilDiv(a, b) == (a + b - 1) \div b
RECURSIVE SumOver(_, _)
SumOver(S, f) == IF S = {} THEN 0
                 ELSE LET e == CHOOSE x \in S : TRUE IN f[e] + SumOver(S \ {e}, f)
Dead(c, p) == rooms[c].players[p].snake.dead

\* the point h lies outside [0, WORLD_SIZE] on some axis
Outside(h) == h.x < 0 \/ h.x > WORLD_SIZE \/ h.y < 0 \/ h.y > WORLD_SIZE

\* C1. Every room of the registry has at least one player, after every
\* handler and every tick (and the registry's key order lists exactly the rooms).
C1_NoEmptyRoom ==
  /\ \A c \in DOMAIN rooms : DOMAIN rooms[c].players # {}
  /\ {roomKeys[i] : i \in Indices(roomKeys)} = DOMAIN rooms
\* a room was destroyed when its last player disconnected
C1_Witness ==
  \E s \in Sockets : /\ conn[s] = "closed" /\ Truthy(currentRoom[s])
                     /\ currentRoom[s] \notin DOMAIN rooms
                     /\ \E i \in Indices(emitted) : emitted[i].ev = "chat_message"

\* C2. leaveRoom(R, s) for a player s of R: R is removed when s is its only
\* player; otherwise R stays, its players are the previous ones without s,
\* and every remaining player's record is unchanged.
C2_LeaveRoom ==
  \A c \in DOMAIN rooms : \A s \in DOMAIN rooms[c].players :
     LET w == leaveRoom(Start(<<0, 500>>), c, s)
         ps == DOMAIN rooms[c].players
     IN IF ps = {s} THEN c \notin DOMAIN w.rooms
        ELSE /\ c \in DOMAIN w.rooms
             /\ DOMAIN w.rooms[c].players = ps \ {s}
             /\ \A q \in ps \ {s} : w.rooms[c].players[q] = rooms[c].players[q]
\* a disconnect has left a room to its other player
C2_Witness ==
  \E s \in Sockets :
     /\ conn[s] = "closed" /\ Truthy(currentRoom[s]) /\ currentRoom[s] \in DOMAIN rooms
     /\ s \notin DOMAIN rooms[currentRoom[s]].players
     /\ \E i \in Indices(emitted) : /\ emitted[i].ev = "chat_message"
                                    /\ emitted[i].data.text = <<ClientName(s), "disconnected">>

\* C3. A connection id is a player of at most one room, and that room is the
\* connection's currentRoom.
C3_OneRoom ==
  \A s \in Sockets : \A c \in DOMAIN rooms :
     s \in DOMAIN rooms[c].players =>
        /\ currentRoom[s] = c
        /\ \A d \in DOMAIN rooms : s \in DOMAIN rooms[d].players => d = c

\* C4. Every room-scoped broadcast of room R is delivered only to connections
\* that are players of R when it is emitted.
C4_OnlyPlayers ==
  \A i \in Indices(emitted) :
     emitted[i].ev \in {"room_state", "player_death", "chat_message"} =>
        emitted[i].to \subseteq emitted[i].players

\* C5. handleDeath for a dead serpent, or for a room code or player id that is
\* not present, changes nothing and emits nothing.
C5_Idempotent ==
  \A c \in RoomCodes, p \in Sockets, killedBy \in {"World Border", "P1"} :
     (c \notin DOMAIN rooms \/ p \notin DOMAIN rooms[c].players \/ Dead(c, p))
        => handleDeath(Start(<<0, 500>>), c, p, killedBy) = Start(<<0, 500>>)
\* a serpent has just been killed: a second call would address a dead serpent
C5_Witness ==
  \E c \in DOMAIN rooms : \E p \in DOMAIN rooms[c].players :
     Dead(c, p) /\ DeathsOf(emitted, c, p) # {} /\ AfterTick

\* C6. In a run of the game loop a serpent whose head leaves the world is
\* killed exactly once: one player_death, and the room's super-food grows by
\* exactly one batch per serpent killed in that tick; a serpent that was dead
\* before the tick is left as it is and gets no player_death.
C6_Step ==
  IsGameLoop =>
    \A c \in DOMAIN rooms :
      LET ps == DOMAIN rooms[c].players
          killed == {p \in ps : ~Dead(c, p) /\ rooms'[c].players[p].snake.dead}
          batch == [p \in killed |-> Cardinality(SampledIdx(rooms'[c].players[p].snake))]
          eatenSuper == {i \in Indices(eatLog') : eatLog'[i].room = c /\ eatLog'[i].food.isSuper}
      IN /\ \A p \in ps :
              /\ Dead(c, p) => /\ rooms'[c].players[p] = rooms[c].players[p]
                               /\ DeathsOf(emitted', c, p) = {}
              /\ p \in killed => Cardinality(DeathsOf(emitted', c, p)) = 1
              /\ (~Dead(c, p) /\ Outside(rooms'[c].players[p].snake.head)) => p \in killed
              /\ (p \notin killed /\ ~Dead(c, p)) => DeathsOf(emitted', c, p) = {}
         /\ SuperCount(rooms'[c].foods)
              = SuperCount(rooms[c].foods) - Cardinality(eatenSuper) + SumOver(killed, batch)
C6_KilledOnce == [][C6_Step]_vars
\* a serpent has been killed by the border with both axes out of bounds
C6_Witness ==
  \E c \in DOMAIN rooms : \E p \in DOMAIN rooms[c].players :
     LET h == rooms[c].players[p].snake.head
     IN /\ Dead(c, p) /\ AfterTick /\ DeathsOf(emitted, c, p) # {}
        /\ (h.x < 0 \/ h.x > WORLD_SIZE) /\ (h.y < 0 \/ h.y > WORLD_SIZE)

\* C7. A serpent killed by the tick gets exactly one you_died, sent to the
\* victim's connection only, carrying the victim's score and the killer label;
\* no you_died goes out without such a death.
C7_YouDied ==
  AfterTick =>
    /\ \A i \in Indices(emitted) :
         emitted[i].ev = "player_death" =>
           LET p == emitted[i].data.playerId
               c == emitted[i].room
               label == IF Outside(rooms[c].players[p].snake.head) THEN "World Border"
                        ELSE emitted[i + 1].data.text[3]
           IN /\ Cardinality(YouDiedTo(emitted, p)) = 1
              /\ \A j \in YouDiedTo(emitted, p) :
                   emitted[j].data = [score |-> rooms[c].players[p].snake.score,
                                      killedBy |-> label]
    /\ \A j \in Indices(emitted) :
         emitted[j].ev = "you_died" =>
           \E i \in Indices(emitted) : /\ emitted[i].ev = "player_death"
                                       /\ emitted[j].to = {emitted[i].data.playerId}

\* C8. Within one tick a food item is consumed by at most one serpent.
C8_EatenOnce ==
  \A i, j \in Indices(eatLog) :
     (i # j /\ eatLog[i].room = eatLog[j].room) => eatLog[i].tag # eatLog[j].tag
\* a serpent processed later in the tick has its head within reach of an item
\* that an earlier serpent consumed in this tick
C8_Witness ==
  \E i \in Indices(eatLog) :
     LET c == eatLog[i].room
         pids == rooms[c].pids
     IN \E m, n \in Indices(pids) :
          /\ m < n /\ pids[m] = eatLog[i].by
          /\ ~Dead(c, pids[n])
          /\ HypotLess(rooms[c].players[pids[n]].snake.head, eatLog[i].food,
                       HEAD_RADIUS + eatLog[i].food.size)

\* C9. The number of normal food items of every room is FOOD_COUNT.
C9_NormalCount ==
  \A c \in DOMAIN rooms : NormalCount(rooms[c].foods) = FOOD_COUNT

\* What a kill of living player p of room c adds to the room's food
Dropped(c, p) ==
  LET w == handleDeath(Start(<<0, 500>>), c, p, "World Border")
  IN SubSeq(w.rooms[c].foods, Len(rooms[c].foods) + 1, Len(w.rooms[c].foods))
\* C10 as stated. Killing a serpent of length L whose trail holds T points
\* adds exactly min(L, floor(T / SEGMENT_SPACING)) super-food items.
C10_Floor ==
  \A c \in DOMAIN rooms : \A p \in DOMAIN rooms[c].players :
     ~Dead(c, p) =>
        LET sn == rooms[c].players[p].snake
        IN /\ Len(Dropped(c, p)) = Min(sn.length, Len(sn.history) \div SEGMENT_SPACING_IDX)
           /\ \A i \in Indices(Dropped(c, p)) : Dropped(c, p)[i].isSuper
\* C10, amended. Killing a serpent of length L whose trail holds T points adds
\* exactly min(L, ceil(T / SEGMENT_SPACING)) super-food items, one per sampled
\* body position, and leaves the items already there as they are.
C10_Ceil ==
  \A c \in DOMAIN rooms : \A p \in DOMAIN rooms[c].players :
     ~Dead(c, p) =>
        LET sn == rooms[c].players[p].snake
            w == handleDeath(Start(<<0, 500>>), c, p, "World Border")
        IN /\ Len(Dropped(c, p)) = Min(sn.length, CeilDiv(Len(sn.history), SEGMENT_SPACING_IDX))
           /\ \A i \in Indices(Dropped(c, p)) : Dropped(c, p)[i].isSuper
           /\ SubSeq(w.rooms[c].foods, 1, Len(rooms[c].foods)) = rooms[c].foods
\* a serpent whose trail is not a whole number of strides and shorter than its
\* length asks for has been killed by the tick, and its drop lies in the room
C10_Witness ==
  \E c \in DOMAIN rooms : \E p \in DOMAIN rooms[c].players :
     LET sn == rooms[c].players[p].snake
     IN /\ Dead(c, p) /\ AfterTick /\ DeathsOf(emitted, c, p) # {}
        /\ Len(sn.history) % SEGMENT_SPACING_IDX # 0
        /\ Len(sn.history) < sn.length * SEGMENT_SPACING_IDX
        /\ sn.length > INIT_LENGTH
        /\ SuperCount(rooms[c].foods) >= Cardinality(SampledIdx(sn))

\* What the next tick of room c does to its serpents, in order
TickLog(c) == tickRoom(Start(<<500, 0>>), c, now + TICK_MS).log
\* C11. Within one tick of a room the movement of every living serpent is
\* applied before any food item is removed and before any serpent is killed:
\* no "move" follows an "eat" or a "kill" in what the tick does.
C11_MoveFirst ==
  \A c \in DOMAIN rooms :
     \A i \in Indices(TickLog(c)) : \A j \in Indices(TickLog(c)) :
        (i < j /\ TickLog(c)[i].ev \in {"eat", "kill"}) => TickLog(c)[j].ev # "move"

RECURSIVE Reversed(_)
Reversed(q) == IF q = <<>> THEN <<>> ELSE Append(Reversed(Tail(q)), Head(q))
\* The next tick of room c with its players iterated in the given order
TickIn(c, order) ==
  tickRoom(StartOf([rooms EXCEPT ![c].pids = order], roomKeys, joined,
                   {s \in Sockets : conn[s] = "open"}, <<500, 0>>),
           c, now + TICK_MS)
DiesIn(c, order) ==
  {p \in DOMAIN rooms[c].players : TickIn(c, order).rooms[c].players[p].snake.dead}
\* who consumes which of the food items the room holds before the tick
EatsIn(c, order) ==
  {<<TickIn(c, order).eaten[i].by, TickIn(c, order).eaten[i].tag>> :
      i \in {j \in Indices(TickIn(c, order).eaten) :
                TickIn(c, order).eaten[j].tag <= Len(rooms[c].foods)}}
\* C12. The serpents that die in a tick, and the food each serpent consumes,
\* are the same when the room's players are iterated in the opposite order.
C12_OrderFree ==
  \A c \in DOMAIN rooms :
     /\ DiesIn(c, rooms[c].pids) = DiesIn(c, Reversed(rooms[c].pids))
     /\ EatsIn(c, rooms[c].pids) = EatsIn(c, Reversed(rooms[c].pids))

\* The last snapshot the client applied: the local player before it (game is
\* the client after it) and the server's serpent of the client, if it has one
LastBefore == received[Len(received)].before
HasServerPlayer ==
  /\ received # <<>>
  /\ "players" \in DOMAIN received[Len(received)].state
  /\ Me \in DOMAIN received[Len(received)].state.players
LastServer == received[Len(received)].state.players[Me].snake
\* C13. Snap case: when the locally predicted head was more than 250 from the
\* server head of the snapshot, the local head and angle are the server's after
\* that one application.
C13_Snap ==
  (HasServerPlayer /\ HypotMore(LastBefore.head, LastServer.head, SNAP_DIST))
     => /\ game.player.head = LastServer.head
        /\ game.player.angle = LastServer.angle
\* the head at (0,0) with another heading received the server head (1000,0)
C13_Witness ==
  /\ HasServerPlayer
  /\ LastBefore.head = ClientPoint(0, 0) /\ LastServer.head = ClientPoint(1000, 0)
  /\ LastBefore.angle # LastServer.angle
  /\ game.player.head = ClientPoint(1000, 0)

\* C14. Smooth case at the example: with the local head at (0,0) and the
\* server head at (10,0), after one application the local head lies strictly
\* between the two.
C14_Between ==
  (HasServerPlayer /\ LastBefore.head = ClientPoint(0, 0)
                   /\ LastServer.head = ClientPoint(10, 0))
     => /\ game.player.head.y = 0
        /\ 0 < game.player.head.x /\ game.player.head.x < 10 * SUBUNIT

\* C15. Smooth-correct range: when the distance d of the local head to the
\* server head satisfied SMOOTH_DIST < d <= SNAP_DIST, each coordinate of the
\* local head has moved by 15% of its difference to the server head (to half
\* a step of the grid), and the local angle is the one before.
C15_Smooth ==
  (/\ HasServerPlayer
   /\ HypotMore(LastBefore.head, LastServer.head, SMOOTH_DIST)
   /\ ~HypotMore(LastBefore.head, LastServer.head, SNAP_DIST))
     => /\ Abs(100 * (game.player.head.x - LastBefore.head.x)
               - LERP_PCT * (LastServer.head.x - LastBefore.head.x)) <= 50
        /\ Abs(100 * (game.player.head.y - LastBefore.head.y)
               - LERP_PCT * (LastServer.head.y - LastBefore.head.y)) <= 50
        /\ game.player.angle = LastBefore.angle
\* the head at (0,0) received a server head at distance exactly 250, with
\* another heading, and has moved by 15% of each difference exactly
C15_Witness ==
  /\ HasServerPlayer
  /\ LastBefore.head = ClientPoint(0, 0) /\ LastServer.head = ClientPoint(150, 200)
  /\ LastBefore.angle # LastServer.angle
  /\ 100 * game.player.head.x = LERP_PCT * LastServer.head.x
  /\ 100 * game.player.head.y = LERP_PCT * LastServer.head.y

\* The lengths of a tick's time step
TickSteps == {TICK_MS, DT_MAX_MS}
\* The living serpents of the rooms
Living == {sn \in UNION {{rooms[c].players[p].snake : p \in DOMAIN rooms[c].players} :
                            c \in DOMAIN rooms} : ~sn.dead}
\* the difference to the target as the arc of less than half a turn, if any
ShortArc(sn) ==
  LET m == (sn.targetAngle - sn.angle) % TURN IN IF 2 * m < TURN THEN m ELSE m - TURN
HalfTurnAway(sn) == 2 * ((sn.targetAngle - sn.angle) % TURN) = TURN
\* the same target, a full turn further in either direction
SameTarget(sn) == {[sn EXCEPT !.targetAngle = @ + k * TURN] : k \in {-1, 1}}
\* C16 as stated. The turn step depends only on (targetAngle - angle) modulo a
\* full turn: the same target expressed a full turn further gives the same new
\* heading.
C16_ModTurn ==
  \A sn \in Living : \A dt \in TickSteps : \A alt \in SameTarget(sn) :
     Steer(alt, dt).angle = Steer(sn, dt).angle
\* C16, amended. Unless the target is exactly half a turn away, the turn step
\* depends only on (targetAngle - angle) modulo a full turn and rotates the
\* heading along the shorter arc: in its direction and not beyond the target.
C16_ShortArc ==
  \A sn \in Living : \A dt \in TickSteps :
     ~HalfTurnAway(sn) =>
        /\ \A alt \in SameTarget(sn) : Steer(alt, dt).angle = Steer(sn, dt).angle
        /\ (Steer(sn, dt).angle - sn.angle) * ShortArc(sn) >= 0
        /\ Abs(Steer(sn, dt).angle - sn.angle) <= Abs(ShortArc(sn))
\* a tick has turned a serpent whose target is numerically greater than its
\* heading the other way round, along the shorter arc
C16_Witness ==
  /\ AfterTick
  /\ \E sn \in Living : sn.targetAngle > 0 /\ sn.angle < 0 /\ ~HalfTurnAway(sn)

\* The serpent of player p of room c is a living serpent of the sender s
OwnLiving(s, c, p) == p = s /\ c = currentRoom[s] /\ ~rooms[c].players[p].snake.dead
\* What a player_input of connection s may change
InputFrame(s) ==
  /\ DOMAIN rooms' = DOMAIN rooms /\ roomKeys' = roomKeys /\ joined' = joined
  /\ emitted' = <<>>
  /\ \A c \in DOMAIN rooms :
        /\ rooms'[c].foods = rooms[c].foods /\ rooms'[c].pids = rooms[c].pids
        /\ DOMAIN rooms'[c].players = DOMAIN rooms[c].players
        /\ \A p \in DOMAIN rooms[c].players :
              IF OwnLiving(s, c, p)
              THEN [rooms'[c].players[p] EXCEPT
                       !.snake.targetAngle = rooms[c].players[p].snake.targetAngle,
                       !.snake.isBoosting = rooms[c].players[p].snake.isBoosting]
                   = rooms[c].players[p]
              ELSE rooms'[c].players[p] = rooms[c].players[p]
C17_Step ==
  \A s \in Sockets : \A data \in ArenaInputs :
     player_input(s, data.targetAngle, data.isBoosting) => InputFrame(s)
\* C17. A player_input message changes nothing but the targetAngle and
\* isBoosting of the sender's own living serpent, and nothing at all when the
\* sender's serpent is dead.
C17_InputFrame == [][C17_Step]_vars
\* a room holds a dead serpent next to a living one that was steered
C17_Witness ==
  \E c \in DOMAIN rooms : \E p, q \in DOMAIN rooms[c].players :
     /\ rooms[c].players[p].snake.dead /\ conn[p] = "open" /\ currentRoom[p] = c
     /\ ~rooms[c].players[q].snake.dead
     /\ rooms[c].players[q].snake.targetAngle = 6 /\ rooms[c].players[q].snake.isBoosting

\* Connection s addresses no player record: it has not joined, or its room or
\* its record in that room is not there
Unjoined(s) ==
  \/ currentRoom[s] = Null
  \/ currentRoom[s] \notin DOMAIN rooms
  \/ s \notin DOMAIN rooms[currentRoom[s]].players
\* C18. Operations addressing an absent room or player are silent no-ops:
\* player_input, respawn and chat_message of a connection without a player
\* record, and tickRoom, handleDeath and leaveRoom for a room code or a player
\* id that is not present, change no state and emit no message.
C18_SilentNoOps ==
  /\ \A s \in Sockets :
        Unjoined(s) =>
           /\ \A data \in ArenaInputs :
                 playerInputBody(Start(<<0>>), s, currentRoom[s], data.targetAngle,
                                 data.isBoosting) = Start(<<0>>)
           /\ \A theme \in {<<>>, <<SNAKE_COLORS[2]>>} :
                 respawnBody(Start(<<500, 0>>), s, currentRoom[s], theme) = Start(<<500, 0>>)
           /\ chatBody(Start(<<0>>), s, currentRoom[s], "hi") = Start(<<0>>)
  /\ \A c \in RoomCodes, p \in Sockets :
        /\ c \notin DOMAIN rooms =>
              tickRoom(Start(<<500, 0>>), c, now + TICK_MS) = Start(<<500, 0>>)
        /\ (c \notin DOMAIN rooms \/ p \notin DOMAIN rooms[c].players) =>
              /\ handleDeath(Start(<<500, 0>>), c, p, "World Border") = Start(<<500, 0>>)
              /\ leaveRoom(Start(<<500, 0>>), c, p) = Start(<<500, 0>>)
\* the server has handled a respawn although no connection has ever joined or
\* left (a join leaves a room behind, and only a disconnect removes the last)
C18_Witness ==
  /\ requests > 0 /\ rooms = <<>> /\ emitted = <<>>
  /\ \A s \in Sockets : conn[s] # "closed" /\ currentRoom[s] = Null
  /\ \E s \in Sockets : conn[s] = "open"

\* C19. After any player_input the stored targetAngle of every serpent is a
\* finite number, and so are its heading and the coordinates of its head: the
\* bounds check applies to it.
C19_Finite ==
  \A c \in DOMAIN rooms : \A p \in DOMAIN rooms[c].players :
     LET sn == rooms[c].players[p].snake
     IN ~IsNaN(sn.targetAngle) /\ ~IsNaN(sn.angle) /\ ~IsNaN(sn.head.x) /\ ~IsNaN(sn.head.y)

\* The themes a respawn request may carry: none, or one
RespawnThemes == {<<>>, <<SNAKE_COLORS[2]>>}
\* C20. A respawn request of a connection s that is a player of room c
\* replaces the serpent of s in c with a freshly created one (alive, score 0,
\* initial length and speed, the theme supplied or else the previous one) and
\* leaves the set of rooms, the player ids of c, the food of c and every other
\* serpent unchanged.
C20_Respawn ==
  \A s \in {t \in Sockets : conn[t] = "open"} : \A c \in DOMAIN rooms :
     s \in DOMAIN rooms[c].players =>
        \A theme \in RespawnThemes :
           LET w0 == Start(<<500, 0>>)
               w == respawnBody(w0, s, currentRoom[s], theme)
               old == rooms[c].players[s].snake
               fresh == createSnake(w0, IF theme # <<>> THEN theme[1] ELSE old.theme).snake
           IN /\ DOMAIN w.rooms = DOMAIN rooms /\ w.keys = roomKeys
              /\ DOMAIN w.rooms[c].players = DOMAIN rooms[c].players
              /\ w.rooms[c].pids = rooms[c].pids
              /\ w.rooms[c].foods = rooms[c].foods
              /\ \A d \in DOMAIN rooms : \A q \in DOMAIN rooms[d].players :
                    (d # c \/ q # s) => w.rooms[d].players[q] = rooms[d].players[q]
              /\ w.rooms[c].players[s].snake = fresh
              /\ ~fresh.dead /\ fresh.score = 0 /\ fresh.length = INIT_LENGTH
              /\ fresh.speed = BASE_SPEED

\* Connection s addresses a living serpent of its own
HasLiving(s) ==
  /\ ~Unjoined(s) /\ Truthy(currentRoom[s])
  /\ ~rooms[currentRoom[s]].players[s].snake.dead
C21_Step ==
  \A s \in Sockets :
     (HasLiving(s) /\ respawn(s, <<>>, <<0, 0, 500>>))
        => rooms'[currentRoom[s]].players[s].snake = rooms[currentRoom[s]].players[s].snake
\* C21. The respawn transition is taken only from the dead state: a respawn
\* request received while the connection's serpent is alive does not replace
\* that serpent.
C21_OnlyFromDead == [][C21_Step]_vars

\* Room c as a handler leaves it, if it is still there
LeftAs(w, c) == IF c \in DOMAIN w.rooms THEN <<w.rooms[c]>> ELSE <<>>
\* The messages a handler sent to room c: event and payload, in order
SentTo(w, c) ==
  LET q == SelectSeq(w.out, LAMBDA m : m.room = c)
  IN [i \in Indices(q) |-> [ev |-> q[i].ev, data |-> q[i].data]]
DeathsIn(w, c) == SelectSeq(SentTo(w, c), LAMBDA m : m.ev = "player_death")
\* C22. When a player s of room c disconnects or switches to another room
\* with a living serpent, room c gets the same super-food and is sent the same
\* player_death payload as handleDeath would produce for that serpent; with a
\* dead serpent nothing is dropped and no player_death is sent; and the
\* disconnect and the switch leave room c in the same state, with the same
\* messages sent to it.
C22_LeaveAsDeath ==
  \A s \in {t \in Sockets : conn[t] = "open"} : \A c \in DOMAIN rooms :
     s \in DOMAIN rooms[c].players =>
        LET w0 == Start(<<0, 500>>)
            hd == handleDeath(w0, c, s, "World Border")
            dc == disconnectBody(w0, s, currentRoom[s])
        IN /\ ~Dead(c, s) =>
                 /\ Len(DeathsIn(dc, c)) = 1 /\ DeathsIn(dc, c) = DeathsIn(hd, c)
                 /\ c \in DOMAIN dc.rooms => dc.rooms[c].foods = hd.rooms[c].foods
           /\ Dead(c, s) =>
                 /\ DeathsIn(dc, c) = <<>>
                 /\ c \in DOMAIN dc.rooms => dc.rooms[c].foods = rooms[c].foods
           /\ \A other \in RoomCodes \ {c} :
                 LET sw == joinRoomBody(w0, s, currentRoom[s], other, ClientName(s),
                                        JoinTheme(s), now)
                 IN LeftAs(sw, c) = LeftAs(dc, c) /\ SentTo(sw, c) = SentTo(dc, c)

\* C23. In every state every serpent, fresh, living or dead, has a trail of at
\* most length * SEGMENT_SPACING + slack points (the source's slack is 20).
C23_TrailBound ==
  \A c \in DOMAIN rooms : \A p \in DOMAIN rooms[c].players :
     Len(rooms[c].players[p].snake.history)
        <= rooms[c].players[p].snake.length * SEGMENT_SPACING_IDX + TRAIL_SLACK

\* The farthest a coordinate of the head of sn moves in a step of DT_MAX_MS
MaxStride(sn) ==
  RoundDiv(1000 * (IF sn.isBoosting THEN sn.speed * 2 ELSE sn.speed) * DT_MAX_MS, 10000000)
C24_Step ==
  IsGameLoop =>
    \A c \in DOMAIN rooms :
       /\ c \in DOMAIN rooms' /\ rooms'[c].lastTick = now
       /\ \A p \in DOMAIN rooms[c].players :
             ~Dead(c, p) =>
                LET old == rooms[c].players[p].snake
                    new == rooms'[c].players[p].snake
                IN /\ Abs(new.head.x - old.head.x) <= MaxStride(old)
                   /\ Abs(new.head.y - old.head.y) <= MaxStride(old)
\* C24. The time step of every tick is at most 0.1 s whatever time has passed
\* since the room's lastTick (no head moves farther than its speed allows in
\* 0.1 s), and every tick sets lastTick to the current time.
C24_ClampedStep == [][C24_Step]_vars
\* a tick has run more than 0.1 s after the previous one of a room with a
\* living serpent
C24_Witness ==
  \E i \in Indices(tickLog) :
     /\ tickLog[i].ev = "tick" /\ tickLog[i].elapsed > DT_MAX_MS
     /\ \E j \in Indices(tickLog) : tickLog[j].ev = "move" /\ tickLog[j].room = tickLog[i].room

\* Handler result w has left every room outside touched as it was
OthersKept(w, touched) ==
  \A d \in (DOMAIN rooms) \ touched : d \in DOMAIN w.rooms /\ w.rooms[d] = rooms[d]
\* C25. Rooms are independent: a tick of a room, and an input, respawn, chat
\* or leave handled for a player of a room, change no other room; a join
\* changes no room other than the one joined and the one left.
C25_Independent ==
  /\ \A c \in DOMAIN rooms :
        OthersKept(tickRoom(Start(<<500, 0>>), c, now + TICK_MS), {c})
  /\ \A s \in {t \in Sockets : conn[t] = "open"} :
        LET cur == currentRoom[s]
        IN /\ \A data \in ArenaInputs :
                 OthersKept(playerInputBody(Start(<<0>>), s, cur, data.targetAngle,
                                            data.isBoosting), {cur})
           /\ \A theme \in RespawnThemes :
                 OthersKept(respawnBody(Start(<<500, 0>>), s, cur, theme), {cur})
           /\ OthersKept(chatBody(Start(<<0>>), s, cur, "hi"), {cur})
           /\ OthersKept(disconnectBody(Start(<<0, 500>>), s, cur), {cur})
           /\ \A roomCode \in RoomCodes :
                 OthersKept(joinRoomBody(Start(<<0, 500>>), s, cur, roomCode, ClientName(s),
                                         JoinTheme(s), now), {cur, roomCode})
\* two rooms with players, and the last handler has created one of them
C25_Witness ==
  \E c, d \in DOMAIN rooms :
     /\ c # d /\ DOMAIN rooms[c].players # {} /\ DOMAIN rooms[d].players # {}
     /\ \E s \in DOMAIN rooms[c].players : currentRoom[s] = c /\ conn[s] = "open"
     /\ \E i \in Indices(emitted) :
           /\ emitted[i].ev = "chat_message" /\ emitted[i].room = c
           /\ emitted[i].data.text = <<ClientName(rooms[c].pids[1]), "joined the arena">>
     /\ Len(rooms[c].pids) = 1

\* C26. Relay server: after every handler no room with an empty player map
\* remains in the registry.
C26_RelayNoEmptyRoom ==
  \A c \in DOMAIN relay.rooms : DOMAIN relay.rooms[c] # {}

\* The next tick of room c: the state after its movement loop, and at its end
AfterMoves(c) ==
  movePhase([Start(<<500, 0>>) EXCEPT !.rooms[c].lastTick = now + TICK_MS], c,
            rooms[c].pids, 1, TimeStep(now + TICK_MS, rooms[c].lastTick), <<>>).w
AtEnd(c) == tickRoom(Start(<<500, 0>>), c, now + TICK_MS)
\* the place of the kill of p in what the tick did, 0 if p was not killed
KillAt(c, p) ==
  LET at == {i \in Indices(AtEnd(c).log) :
                AtEnd(c).log[i].ev = "kill" /\ AtEnd(c).log[i].pid = p}
  IN IF at = {} THEN 0 ELSE CHOOSE i \in at : TRUE
\* the head of a is within the kill radius of a sampled trail point of b
NearBody(a, b) ==
  \E i \in 0..(b.length - 1) :
     /\ i * SEGMENT_SPACING_IDX < Len(b.history)
     /\ HypotLess(a.head, b.history[i * SEGMENT_SPACING_IDX + 1], KILL_RADIUS)
\* C27. A serpent p killed in the collision phase of a tick has its head within
\* the kill radius of a sampled trail point of a different serpent b that is
\* alive at that moment, and the kill is attributed to the display name of b.
C27_KilledByOther ==
  \A c \in DOMAIN rooms : \A p \in DOMAIN rooms[c].players :
     (~AfterMoves(c).rooms[c].players[p].snake.dead
        /\ AtEnd(c).rooms[c].players[p].snake.dead)
     => \E b \in (DOMAIN rooms[c].players) \ {p} :
           /\ ~AfterMoves(c).rooms[c].players[b].snake.dead
           /\ (KillAt(c, b) = 0 \/ KillAt(c, b) > KillAt(c, p))
           /\ NearBody(AfterMoves(c).rooms[c].players[p].snake,
                       AfterMoves(c).rooms[c].players[b].snake)
           /\ \E i \in Indices(AtEnd(c).out) :
                 /\ AtEnd(c).out[i].ev = "chat_message"
                 /\ AtEnd(c).out[i].data.text
                      = <<rooms[c].players[p].playerName, "was terminated by",
                          rooms[c].players[b].playerName>>
\* a tick has killed a serpent that ran into another one, and the killer lives
C27_Witness ==
  /\ AfterTick
  /\ \E c \in DOMAIN rooms : \E p, b \in DOMAIN rooms[c].players :
        /\ p # b /\ Dead(c, p) /\ ~Dead(c, b)
        /\ \E i \in Indices(emitted) :
              /\ emitted[i].ev = "chat_message"
              /\ emitted[i].data.text = <<rooms[c].players[p].playerName, "was terminated by",
                                          rooms[c].players[b].playerName>>

\* the serpents of room c that the bounds check of the next tick kills
BorderKilled(c) ==
  {p \in DOMAIN rooms[c].players :
      ~Dead(c, p) /\ AfterMoves(c).rooms[c].players[p].snake.dead}
\* C28. A serpent p killed by the bounds check is excluded from the rest of the
\* tick: its trail is the one it had before the tick, it consumes no food
\* (length, speed and score stay), it is killed once, and every serpent killed
\* in the collision phase of the tick is killed by a serpent other than p.
C28_Excluded ==
  \A c \in DOMAIN rooms : \A p \in BorderKilled(c) :
     LET before == rooms[c].players[p].snake
         after == AtEnd(c).rooms[c].players[p].snake
         log == AtEnd(c).log
     IN /\ Outside(after.head)
        /\ after.history = before.history
        /\ after.length = before.length /\ after.speed = before.speed
        /\ after.score = before.score
        /\ \A i \in Indices(log) : log[i].ev = "eat" => log[i].pid # p
        /\ Cardinality({i \in Indices(log) : log[i].ev = "kill" /\ log[i].pid = p}) = 1
        /\ Cardinality(DeathsOf(AtEnd(c).out, c, p)) = 1
        /\ \A q \in (DOMAIN rooms[c].players) \ {p} :
              (~AfterMoves(c).rooms[c].players[q].snake.dead
                 /\ AtEnd(c).rooms[c].players[q].snake.dead)
              => \E b \in (DOMAIN rooms[c].players) \ {p, q} :
                    NearBody(AfterMoves(c).rooms[c].players[q].snake,
                             AfterMoves(c).rooms[c].players[b].snake)
\* a tick has killed a serpent at the border while the head of a living serpent
\* is within the kill radius of its body, and that serpent lives on
C28_Witness ==
  /\ AfterTick
  /\ \E c \in DOMAIN rooms : \E p, q \in DOMAIN rooms[c].players :
        /\ p # q /\ Dead(c, p) /\ ~Dead(c, q)
        /\ Outside(rooms[c].players[p].snake.head)
        /\ NearBody(rooms[c].players[q].snake, rooms[c].players[p].snake)
        /\ \E i \in Indices(tickLog) :
              tickLog[i].ev = "kill" /\ tickLog[i].room = c /\ tickLog[i].pid = p

\* the places of the room_state messages of room c in msgs
StatesOf(msgs, c) == {i \in Indices(msgs) : msgs[i].ev = "room_state" /\ msgs[i].room = c}
C29_Step ==
  IsGameLoop =>
    \A c \in DOMAIN rooms :
       /\ c \in DOMAIN rooms'
       /\ Cardinality(StatesOf(emitted', c)) = 1
       /\ \A i \in StatesOf(emitted', c) :
             /\ \A j \in Indices(emitted') :
                   (emitted'[j].room = c
                      \/ (emitted'[j].ev = "you_died" /\ emitted'[j - 1].room = c))
                   => j <= i
             /\ DOMAIN emitted'[i].data.players = DOMAIN rooms'[c].players
             /\ \A p \in DOMAIN rooms'[c].players :
                   /\ emitted'[i].data.players[p].snake = rooms'[c].players[p].snake
                   /\ emitted'[i].data.players[p].playerName = rooms'[c].players[p].playerName
             /\ emitted'[i].data.foods = rooms'[c].foods
\* C29. Every run of the game loop sends each existing room exactly one
\* room_state, after every other message of the room's tick (a you_died follows
\* the chat line of its room); it holds an entry
\* for every player of the room with the serpent as the tick left it (dead if it
\* died in the tick) and the food list as the tick left it.
C29_OneSnapshot == [][C29_Step]_vars
\* a tick in which a serpent died and another consumed food has sent the snapshot
C29_Witness ==
  \E i \in Indices(emitted) :
     /\ emitted[i].ev = "room_state"
     /\ \E p \in DOMAIN emitted[i].data.players :
           /\ emitted[i].data.players[p].snake.dead
           /\ \E k \in Indices(tickLog) :
                 tickLog[k].ev = "kill" /\ tickLog[k].room = emitted[i].room
                    /\ tickLog[k].pid = p
     /\ \E k \in Indices(tickLog) :
           tickLog[k].ev = "eat" /\ tickLog[k].room = emitted[i].room

\* the places in log of the items that p consumed in room c
EatenBy(log, c, p) == {i \in Indices(log) : log[i].room = c /\ log[i].by = p}
\* a serpent as createSnake makes it
Newborn(sn) == sn.length = INIT_LENGTH /\ sn.speed = BASE_SPEED /\ sn.score = 0 /\ ~sn.dead
C30_Step ==
  /\ \A i \in Indices(eatLog') :
        eatLog'[i].food.value = IF eatLog'[i].food.isSuper THEN SUPER_VALUE ELSE NORMAL_VALUE
  /\ \A c \in (DOMAIN rooms) \cap (DOMAIN rooms') :
        \A p \in (DOMAIN rooms[c].players) \cap (DOMAIN rooms'[c].players) :
           LET a == rooms[c].players[p].snake
               b == rooms'[c].players[p].snake
               eats == EatenBy(eatLog', c, p)
           IN \/ /\ b.length = a.length + Cardinality(eats)
                 /\ b.speed = a.speed + SPEED_INC * Cardinality(eats)
                 /\ b.score = a.score + SumOver(eats, [i \in eats |-> eatLog'[i].food.value])
              \/ ~IsGameLoop /\ eats = {} /\ b # a /\ Newborn(b)
C30_Inv ==
  \A c \in DOMAIN rooms : \A p \in DOMAIN rooms[c].players :
     LET sn == rooms[c].players[p].snake
     IN /\ sn.speed = BASE_SPEED + SPEED_INC * (sn.length - INIT_LENGTH)
        /\ NORMAL_VALUE * (sn.length - INIT_LENGTH) <= sn.score
        /\ sn.score <= SUPER_VALUE * (sn.length - INIT_LENGTH)
\* C30. Each consumed food item adds 1 to the length of the consuming serpent,
\* SPEED_INC to its speed and the item's value (10 normal, 30 super) to its
\* score; no step changes them otherwise (a respawn or a join makes a new
\* serpent); and every serpent has speed = BASE_SPEED + SPEED_INC * (length -
\* initial length) and a score between 10 and 30 times (length - initial length).
C30_Growth == []C30_Inv /\ [][C30_Step]_vars
\* a boosting serpent has consumed a super item and a normal one
C30_Witness ==
  \E c \in DOMAIN rooms : \E p \in DOMAIN rooms[c].players :
     /\ rooms[c].players[p].snake.length = INIT_LENGTH + 2
     /\ rooms[c].players[p].snake.score = SUPER_VALUE + NORMAL_VALUE
     /\ rooms[c].players[p].snake.isBoosting

\* the item f lies at least m inside the world on both axes
Within(f, m) == m <= f.x /\ f.x <= WORLD_SIZE - m /\ m <= f.y /\ f.y <= WORLD_SIZE - m
\* the streams of Math.random() a drop may see
DropStreams == {<<0, 0, 500>>, <<500, 0>>, <<0, 999>>, <<500, 999>>}
\* the item that a drop at the point h adds to room c
DropAt(c, h, rs) ==
  LET foods == spawnOne(Start(rs), c, <<h>>, TRUE).rooms[c].foods IN foods[Len(foods)]
\* C31. Every food item of every room lies inside the world: a uniformly
\* spawned item is within [FOOD_MARGIN, WORLD_SIZE - FOOD_MARGIN] and a drop
\* within [DROP_MARGIN, WORLD_SIZE - DROP_MARGIN] on both axes; and a drop at
\* any trail point of any serpent, also at one outside the world, lands within
\* [DROP_MARGIN, WORLD_SIZE - DROP_MARGIN].
C31_FoodInside ==
  \A c \in DOMAIN rooms :
     /\ \A i \in Indices(rooms[c].foods) :
           Within(rooms[c].foods[i], IF rooms[c].foods[i].isSuper THEN DROP_MARGIN ELSE FOOD_MARGIN)
     /\ \A p \in DOMAIN rooms[c].players : \A rs \in DropStreams :
           \A k \in Indices(rooms[c].players[p].snake.history) :
              Within(DropAt(c, rooms[c].players[p].snake.history[k], rs), DROP_MARGIN)
\* a room holds a drop that the clamp put on the margin, and a serpent of the
\* room has a trail point outside the world
C31_Witness ==
  \E c \in DOMAIN rooms :
     /\ \E i \in Indices(rooms[c].foods) :
           /\ rooms[c].foods[i].isSuper
           /\ rooms[c].foods[i].x \in {DROP_MARGIN, WORLD_SIZE - DROP_MARGIN}
     /\ \E p \in DOMAIN rooms[c].players :
           \E k \in Indices(rooms[c].players[p].snake.history) :
              Outside(rooms[c].players[p].snake.history[k])

\* the client is in a multiplayer game
InMultiplayer == ui.isMultiplayer /\ ui.gameState # "MENU"
C32_Step ==
  (InMultiplayer /\ InMultiplayer' /\ received' = received) => game'.foods = game.foods
\* C32. In multiplayer mode the client's food list changes only when a
\* snapshot is applied: no other step of a multiplayer game removes or adds a
\* food item.
C32_NoLocalFood == [][C32_Step]_vars

C33_Step ==
  InMultiplayer =>
    /\ ui'.last = "frame" =>
          /\ game'.player.dead = game.player.dead
          /\ ui'.deaths = <<>> /\ ui'.overs = 0
          /\ ui'.gameState = ui.gameState
    /\ (InMultiplayer' /\ game'.player.dead # game.player.dead) => received' # received
    /\ (ui'.gameState = "GAME_OVER" /\ ui.gameState # "GAME_OVER") => ui'.last = "you_died"
\* C33. In a multiplayer game an animation frame never marks the local
\* serpent dead, never calls handleSnakeDeath or gameOver and leaves the game
\* state; the local dead flag changes only when a snapshot is applied; and
\* GAME_OVER is entered only by a you_died message.
C33_ServerDecides == [][C33_Step]_vars
\* a frame of a multiplayer game has moved the living local head out of the
\* world, and the game goes on
C33_Witness ==
  /\ InMultiplayer /\ ui.last = "frame" /\ ui.gameState = "PLAYING"
  /\ ClientOutside(game.player.head) /\ ~game.player.dead

\* the value v lies in [lo, hi]; no comparison with NaN holds
Between(lo, v, hi) == ~IsNaN(v) /\ lo <= v /\ v <= hi
\* C34. After every server tick every living serpent of a room has its head
\* inside [0, WORLD_SIZE] on both axes.
C34_HeadsInside ==
  AfterTick =>
    \A c \in DOMAIN rooms : \A p \in DOMAIN rooms[c].players :
       ~Dead(c, p) => /\ Between(0, rooms[c].players[p].snake.head.x, WORLD_SIZE)
                      /\ Between(0, rooms[c].players[p].snake.head.y, WORLD_SIZE)
\* C34, second part: a serpent made by createSnake starts inside
\* [SPAWN_MARGIN, WORLD_SIZE - SPAWN_MARGIN] on both axes.
C34_SpawnInside ==
  \A rs \in DropStreams :
     LET sn == createSnake(Start(rs), <<>>).snake
     IN /\ Between(SPAWN_MARGIN, sn.head.x, WORLD_SIZE - SPAWN_MARGIN)
        /\ Between(SPAWN_MARGIN, sn.head.y, WORLD_SIZE - SPAWN_MARGIN)

C35_Step ==
  \A c \in DOMAIN rooms : \A p \in DOMAIN rooms[c].players :
     Dead(c, p) =>
        \/ /\ c \in DOMAIN rooms' /\ p \in DOMAIN rooms'[c].players
           /\ rooms'[c].players[p].snake = rooms[c].players[p].snake
        \/ /\ ~IsGameLoop /\ requests' = requests + 1
           /\ c \in DOMAIN rooms' /\ p \in DOMAIN rooms'[c].players
           /\ Newborn(rooms'[c].players[p].snake)
        \/ /\ ~IsGameLoop
           /\ (c \in DOMAIN rooms' => p \notin DOMAIN rooms'[c].players)
\* C35. A dead serpent is left as it is by every step (every tick and every
\* player_input among them): it stays a player of the room with the same head,
\* angle, trail, length, speed, score, targetAngle and isBoosting, and dead;
\* except that a respawn request replaces it by a new serpent and a leave
\* removes the player.
C35_DeadFrozen == [][C35_Step]_vars
\* a tick has passed over a serpent that was dead before it
C35_Witness ==
  /\ AfterTick
  /\ \E c \in DOMAIN rooms : \E p \in DOMAIN rooms[c].players :
        /\ Dead(c, p)
        /\ \E i \in Indices(tickLog) : tickLog[i].ev = "tick" /\ tickLog[i].room = c
        /\ \A i \in Indices(tickLog) :
              tickLog[i].ev \in {"kill", "move"} => tickLog[i].pid # p

\* the square of the distance of the points p and q, for points at most
\* SNAP_DIST apart on each axis
Dist2(p, q) == (p.x - q.x) * (p.x - q.x) + (p.y - q.y) * (p.y - q.y)
\* v is 85 % of u, up to the rounding to the grid
Is85(v, u) == Abs(100 * v - (100 - LERP_PCT) * u) <= 50
\* C36. Applying a snapshot never increases the distance between the local
\* head and the server head of the snapshot: after it the local head is the
\* server head (the distance was above 250), or the difference is 0.85 times
\* the previous one on both axes, and the distance not greater (it was above
\* 10), or the head is where it was, at most 10 from the server head.
C36_NoFarther ==
  HasServerPlayer =>
     IF HypotMore(LastBefore.head, LastServer.head, SNAP_DIST)
     THEN game.player.head = LastServer.head
     ELSE IF HypotMore(LastBefore.head, LastServer.head, SMOOTH_DIST)
          THEN /\ Is85(game.player.head.x - LastServer.head.x,
                       LastBefore.head.x - LastServer.head.x)
               /\ Is85(game.player.head.y - LastServer.head.y,
                       LastBefore.head.y - LastServer.head.y)
               /\ Dist2(game.player.head, LastServer.head)
                     <= Dist2(LastBefore.head, LastServer.head)
          ELSE /\ game.player.head = LastBefore.head
               /\ ~HypotMore(game.player.head, LastServer.head, SMOOTH_DIST)
\* a snapshot has brought the local head nearer to a server head that was
\* between 10 and 250 away, on both axes
C36_Witness ==
  /\ HasServerPlayer
  /\ ~HypotMore(LastBefore.head, LastServer.head, SNAP_DIST)
  /\ LastBefore.head.x # LastServer.head.x /\ LastBefore.head.y # LastServer.head.y
  /\ 0 < Dist2(game.player.head, LastServer.head)
  /\ Dist2(game.player.head, LastServer.head) < Dist2(LastBefore.head, LastServer.head)

\* the local head is within 10 units of the head of the snapshot
Near == HasServerPlayer /\ ~HypotMore(game.player.head, LastServer.head, SMOOTH_DIST)
\* C37. Reconciliation converges: with a server head that stays fixed and no
\* local movement between the snapshots, the local head is within 10 units of
\* the server head after finitely many applications, and stays within 10
\* units from then on.
C37_Converges == <>[]Near
\* the head came within 10 units by a smoothing step after more than fifteen
\* applications of the snapshot
C37_Witness ==
  /\ Near
  /\ received[1].n > 15
  /\ HypotMore(LastBefore.head, LastServer.head, SMOOTH_DIST)
  /\ game.player.head # LastServer.head

\* the client has joined a room and is now in the menu or in a single-player
\* game
OutOfMultiplayer == ui.inRoom /\ ~InMultiplayer
\* the step is the handling of a room_state or of a you_died message
IsNetworkEvent == received' # received \/ (ui.last # "you_died" /\ ui'.last = "you_died")
C38_Step ==
  (OutOfMultiplayer /\ IsNetworkEvent) =>
     /\ game'.player = game.player
     /\ game'.foods = game.foods
     /\ ui'.gameState = ui.gameState
\* C38. While the client is not in multiplayer mode (in the menu or in a
\* single-player game, also after quitting a multiplayer game without
\* disconnecting), an incoming room_state or you_died message modifies neither
\* the local serpent nor the local food list nor the game state.
C38_NetworkIgnored == [][C38_Step]_vars
\* the parts of C38: a you_died message does not end a single-player game, a
\* room_state message does not alter its serpent and food
C38_SingleStep ==
  (ui.inRoom /\ ~ui.isMultiplayer /\ ui.gameState = "PLAYING" /\ ui'.last = "you_died")
     => ui'.gameState = "PLAYING"
C38_SingleNotEnded == [][C38_SingleStep]_vars
C38_AlterStep ==
  (ui.inRoom /\ ~ui.isMultiplayer /\ ui.gameState = "PLAYING" /\ received' # received)
     => game'.player = game.player /\ game'.foods = game.foods
C38_SingleNotAltered == [][C38_AlterStep]_vars

\* the state after a frame of a single-player game
AfterSingleFrame == ui.last = "frame" /\ ~ui.isMultiplayer
\* the parts of C39: in one frame handleSnakeDeath is not called for a serpent
\* that is dead already (so that it is marked and drops its trail once), a
\* dead serpent eats nothing, gameOver is called at most once
C39_HandledOnce == AfterSingleFrame => \A i \in DOMAIN ui.deaths : ~ui.deaths[i].wasDead
C39_DeadEatNothing == AfterSingleFrame => \A i \in DOMAIN ui.ate : ~ui.ate[i].dead
C39_OneGameOver == AfterSingleFrame => ui.overs <= 1
\* C39. In single-player mode death handling runs at most once per serpent
\* life: a serpent that leaves the world bounds and/or touches several other
\* serpents in the same frame is marked dead once, drops its super-food trail
\* once, eats no food after dying, and (for the player) triggers game over
\* once.
C39_DeathOnce == C39_HandledOnce /\ C39_DeadEatNothing /\ C39_OneGameOver
====
